---- MODULE Spec2Model ----
(***************************************************************************)
(* A model of osm-graph-export-extension: the pure graph utilities         *)
(* (lib/graph-utils.js: validateBounds, splitBounds, mergeOsmData,         *)
(* convertToGraph) and the background script that fetches OSM data tile by *)
(* tile and caches the graph built from it.                                *)
(*                                                                         *)
(* Numbers.  Coordinates are degrees in the source.  The model keeps them  *)
(* in fixed point: one unit is 0.005 degree, so that the default tile edge *)
(* (0.05) is 10 units, its overlap (0.05 * 0.1) is 1 unit, the tiling      *)
(* threshold (0.1) is 20 units, and the latitude and longitude limits are  *)
(* 18000 and 36000 units.  Arithmetic is exact, except for the additions  *)
(* that advance the loop variables of splitBounds (s += maxDeg): a double  *)
(* addition rounds, and the model lets the loop variable be off its exact  *)
(* value by a rounding error of at most one unit, in either direction.     *)
(*                                                                         *)
(* JavaScript values.  A field of a bounds object is a tagged value        *)
(* [t, v]: t = "num" (finite, v units), "inf" / "ninf" (+-Infinity),       *)
(* "nan", "string" (any non-number) or "undefined" (the field is missing). *)
(***************************************************************************)
EXTENDS Integers, Sequences, FiniteSets, TLC

VARIABLES
    input,        \* argument of the pure function under test
    output,       \* its result, or Pending
    graphCache,   \* background: let graphCache = null
    runs,         \* background: the fetchOsmData run of each FETCH_OSM_DATA message, by message number
    inflight,     \* background: HTTP requests issued and not yet answered
    responses,    \* background: what sendResponse was called with, in order
    handled,      \* background: number of messages the listener has handled
    requests      \* background: the messages the listener was called with, in order

vars == <<input, output, graphCache, runs, inflight, responses, handled, requests>>

bgvars == <<graphCache, runs, inflight, responses, handled, requests>>

fnvars == <<input, output>>

----------------------------------------------------------------------------
(* Fixed-point program constants (units of 0.005 degree).                   *)

LatLimit == 18000

LonLimit == 36000

DefaultMaxDeg == 10

TILE_THRESHOLD == 20

(* Bounds of the model.                                                     *)

\* coordinates are sampled this far on each side of the latitude and longitude limits
Margin == 1

----------------------------------------------------------------------------
(* JavaScript numbers and the comparisons validateBounds makes on them.     *)

Num(n) == [t |-> "num", v |-> n]

PosInf == [t |-> "inf", v |-> 0]

NegInf == [t |-> "ninf", v |-> 0]

NaN == [t |-> "nan", v |-> 0]

NotANumber == [t |-> "string", v |-> 0]

Missing == [t |-> "undefined", v |-> 0]

\* typeof value === 'number'
IsNumberType(x) == x.t \in {"num", "inf", "ninf", "nan"}

IsFinite(x) == x.t = "num"

\* every comparison with NaN is false
Comparable(a, b) == a.t # "nan" /\ b.t # "nan"

\* a <= b
NumLe(a, b) ==
    /\ Comparable(a, b)
    /\ \/ a.t = "ninf"
       \/ b.t = "inf"
       \/ (a.t = "num" /\ b.t = "num" /\ a.v <= b.v)

\* a < b
NumLt(a, b) == Comparable(a, b) /\ ~NumLe(b, a)

\* a > b
NumGt(a, b) == NumLt(b, a)

----------------------------------------------------------------------------
(* validateBounds.  The result is the message of the Error thrown, or      *)
(* NoError, together with the number of rules that were evaluated.         *)

NoError == "ok"

FieldNames == <<"north", "south", "east", "west">>

InvalidFieldNoNaN(value) == ~IsNumberType(value)

\* typeof value !== 'number' || isNaN(value)
InvalidField(value) == ~IsNumberType(value) \/ value.t = "nan"

\* for (const [name, value] of Object.entries({ north, south, east, west }))
FirstInvalidField(b) ==
    IF InvalidField(b.north) THEN 1
    ELSE IF InvalidField(b.south) THEN 2
    ELSE IF InvalidField(b.east) THEN 3
    ELSE IF InvalidField(b.west) THEN 4
    ELSE 0

validateBoundsSwapped(bounds) ==
    IF bounds.kind # "object"
    THEN [error |-> "Bounds must be an object", rules |-> 1]
    ELSE IF FirstInvalidField(bounds) # 0
    THEN [error |-> FieldNames[FirstInvalidField(bounds)] \o " must be a valid number",
          rules |-> 2]
    ELSE IF \/ NumGt(bounds.north, Num(LatLimit)) \/ NumLt(bounds.north, Num(-LatLimit))
            \/ NumGt(bounds.south, Num(LatLimit)) \/ NumLt(bounds.south, Num(-LatLimit))
    THEN [error |-> "Latitude must be between -90 and 90", rules |-> 3]
    ELSE IF NumLe(bounds.north, bounds.south)
    THEN [error |-> "North must be greater than south", rules |-> 4]
    ELSE IF NumLe(bounds.east, bounds.west)
    THEN [error |-> "East must be greater than west", rules |-> 5]
    ELSE IF \/ NumGt(bounds.east, Num(LonLimit)) \/ NumLt(bounds.east, Num(-LonLimit))
            \/ NumGt(bounds.west, Num(LonLimit)) \/ NumLt(bounds.west, Num(-LonLimit))
    THEN [error |-> "Longitude must be between -180 and 180", rules |-> 6]
    ELSE [error |-> NoError, rules |-> 6]

validateBounds(bounds) ==
    IF bounds.kind # "object"
    THEN [error |-> "Bounds must be an object", rules |-> 1]
    ELSE IF FirstInvalidField(bounds) # 0
    THEN [error |-> FieldNames[FirstInvalidField(bounds)] \o " must be a valid number",
          rules |-> 2]
    ELSE IF NumLe(bounds.north, bounds.south)
    THEN [error |-> "North must be greater than south", rules |-> 3]
    ELSE IF \/ NumGt(bounds.north, Num(LatLimit)) \/ NumLt(bounds.north, Num(-LatLimit))
            \/ NumGt(bounds.south, Num(LatLimit)) \/ NumLt(bounds.south, Num(-LatLimit))
    THEN [error |-> "Latitude must be between -90 and 90", rules |-> 4]
    ELSE IF \/ NumGt(bounds.east, Num(LonLimit)) \/ NumLt(bounds.east, Num(-LonLimit))
            \/ NumGt(bounds.west, Num(LonLimit)) \/ NumLt(bounds.west, Num(-LonLimit))
    THEN [error |-> "Longitude must be between -180 and 180", rules |-> 5]
    ELSE IF NumLe(bounds.east, bounds.west)
    THEN [error |-> "East must be greater than west", rules |-> 6]
    ELSE [error |-> NoError, rules |-> 6]

----------------------------------------------------------------------------
(* The values validateBounds is applied to.                                 *)

Pending == [pending |-> TRUE]

\* JavaScript's null
Null == [isNull |-> TRUE]

\* a bounds object { north, south, east, west }
Box(n, s, e, w) == [kind |-> "object", north |-> n, south |-> s, east |-> e, west |-> w]

\* null, undefined, 0, '' (falsy) and a non-empty string or number (not an object)
NonObjects ==
    {[kind |-> k, north |-> Missing, south |-> Missing, east |-> Missing, west |-> Missing] :
        k \in {"null", "primitive"}}

\* finite values on both sides of the two limits of a range, and 0
CoordSamples(limit) ==
    {0} \cup {c + d : c \in {-limit, limit}, d \in -Margin..Margin}

\* the values a field is given: finite samples, +-Infinity, NaN, a non-number and
\* a missing field
FieldValues(limit) ==
    {Num(n) : n \in CoordSamples(limit)} \cup {PosInf, NegInf, NaN, NotANumber, Missing}

\* every box over the given latitude and longitude values, and the values that
\* are no object
BoundsInputs(lats, lons) ==
    NonObjects \cup
    {Box(n, s, e, w) : n \in lats, s \in lats, e \in lons, w \in lons}

BackgroundIdle ==
    /\ graphCache = Null
    /\ runs = <<>>
    /\ inflight = {}
    /\ responses = <<>>
    /\ handled = 0
    /\ requests = <<>>

InitValidate ==
    /\ input \in BoundsInputs(FieldValues(LatLimit), FieldValues(LonLimit))
    /\ output = Pending
    /\ BackgroundIdle

CallValidateBounds ==
    /\ output = Pending
    /\ output' = validateBounds(input)
    /\ UNCHANGED <<input, bgvars>>

NextValidate == CallValidateBounds

SpecValidate == InitValidate /\ [][NextValidate]_vars

----------------------------------------------------------------------------
(* splitBounds(bounds, maxDeg).  bounds is a validated box; maxDeg is a    *)
(* multiple of 10 units, so that overlap = maxDeg * 0.1 is a whole number  *)
(* of units.                                                               *)

Max(a, b) == IF a > b THEN a ELSE b

Min(a, b) == IF a < b THEN a ELSE b

\* for (let s = from; s < to; s += step), once s has left from: the values s
\* takes when the additions that follow are exact, for step > 0
RECURSIVE LoopFrom(_, _, _)
LoopFrom(s, to, step) ==
    IF s < to
    THEN <<s>> \o LoopFrom(s + step, to, step)
    ELSE <<>>

\* a loop that leaves out the last, partial step
LoopStartsWhole(from, to, step, err) ==
    IF from + step <= to
    THEN <<from>> \o LoopFrom(from + step + err, to - step + 1, step)
    ELSE <<>>

\* a loop that runs once more when the span is a multiple of the step
LoopStartsInclusive(from, to, step, err) ==
    IF from <= to
    THEN <<from>> \o LoopFrom(from + step + err, to + 1, step)
    ELSE <<>>

\* for (let s = from; s < to; s += step): the values s takes, for step > 0.
\* s += step is a double addition: err is the rounding error s carries
\* after it (0 when the additions are exact).
LoopStarts(from, to, step, err) ==
    IF from < to
    THEN <<from>> \o LoopFrom(from + step + err, to, step)
    ELSE <<>>

\* a tile that is expanded by the overlap and not clamped
TileUnclamped(s, w, maxDeg) ==
    LET overlap == maxDeg \div 10
    IN  Box(Num(s + maxDeg + overlap), Num(s - overlap),
            Num(w + maxDeg + overlap), Num(w - overlap))

\* tiles.push({ south: Math.max(s - overlap, -90), north: Math.min(s + maxDeg + overlap, 90),
\*              west: Math.max(w - overlap, -180), east: Math.min(w + maxDeg + overlap, 180) })
Tile(s, w, maxDeg) ==
    LET overlap == maxDeg \div 10
    IN  Box(Num(Min(s + maxDeg + overlap, LatLimit)), Num(Max(s - overlap, -LatLimit)),
            Num(Min(w + maxDeg + overlap, LonLimit)), Num(Max(w - overlap, -LonLimit)))

\* the inner loop: one row of tiles, west to east
TileRow(s, bounds, maxDeg, err) ==
    LET ws == LoopStarts(bounds.west.v, bounds.east.v, maxDeg, err)
    IN  [j \in 1..Len(ws) |-> Tile(s, ws[j], maxDeg)]

RECURSIVE Concat(_)
Concat(rows) == IF rows = <<>> THEN <<>> ELSE Head(rows) \o Concat(Tail(rows))

\* the outer loop: rows south to north, appended to tiles in that order;
\* rounding.lat and rounding.lon are the rounding errors of s and of w
splitBoundsRounded(bounds, maxDeg, rounding) ==
    LET ss == LoopStarts(bounds.south.v, bounds.north.v, maxDeg, rounding.lat)
    IN  Concat([i \in 1..Len(ss) |-> TileRow(ss[i], bounds, maxDeg, rounding.lon)])

ExactAdditions == [lat |-> 0, lon |-> 0]

\* splitBounds when every addition is exact
splitBounds(bounds, maxDeg) == splitBoundsRounded(bounds, maxDeg, ExactAdditions)

(* The boxes and tile sizes splitBounds is applied to: valid boxes at the   *)
(* poles, at the +-180 meridian and in between, of every span up to         *)
(* MaxSpan; maxDeg from the default to MaxDegFactor times the default; the  *)
(* loop variables rounded down, exactly or up.                              *)

MaxSpan == 25

MaxDegFactor == 2

Intervals(limit, maxSpan) ==
    {<<lo, lo + span>> : lo \in {-limit, -Margin, limit - maxSpan}, span \in 1..maxSpan}
    \cup {<<limit - span, limit>> : span \in 1..maxSpan}

ValidBoxes(maxSpan) ==
    {Box(Num(ns[2]), Num(ns[1]), Num(we[2]), Num(we[1])) :
        ns \in Intervals(LatLimit, maxSpan), we \in Intervals(LonLimit, maxSpan)}

RoundingErrors == {-1, 0, 1}

InitSplit ==
    /\ input \in [bounds : ValidBoxes(MaxSpan),
                  maxDeg : {DefaultMaxDeg * m : m \in 1..MaxDegFactor},
                  rounding : [lat : RoundingErrors, lon : RoundingErrors]]
    /\ output = Pending
    /\ BackgroundIdle

CallSplitBounds ==
    /\ output = Pending
    /\ output' = [tiles |-> splitBoundsRounded(input.bounds, input.maxDeg, input.rounding)]
    /\ UNCHANGED <<input, bgvars>>

NextSplit == CallSplitBounds

SpecSplit == InitSplit /\ [][NextSplit]_vars

(* splitBounds step by step, for the question whether its loops end.  The   *)
(* call in progress is held in output:                                      *)
(*   pc      "outer" (at the test s < bounds.north) or "inner" (at the     *)
(*           test w < bounds.east)                                          *)
(*   s, w    the loop variables                                             *)
(*   pushed  tiles.length                                                   *)
(* maxDeg is any number of units, positive, zero or negative.  When maxDeg  *)
(* is not positive a loop variable never rises, so its test stays true:    *)
(* the model stops following the variable MaxTrackedSteps steps below its   *)
(* start.  Tiles are counted up to MaxCountedTiles; beyond that the model   *)
(* keeps only whether their number is even or odd.                          *)

MaxTrackedSteps == 3

MaxCountedTiles == 10

LoopIntervals(limit) == {<<0, 5>>, <<-5, 20>>, <<limit - 15, limit>>}

LoopBoxes ==
    {Box(Num(ns[2]), Num(ns[1]), Num(we[2]), Num(we[1])) :
        ns \in LoopIntervals(LatLimit), we \in LoopIntervals(LonLimit)}

LoopMaxDegs == {-2 * DefaultMaxDeg, -DefaultMaxDeg, 0, DefaultMaxDeg, 2 * DefaultMaxDeg}

InLoop(pc, sv, wv, pushed) == [pc |-> pc, s |-> sv, w |-> wv, pushed |-> pushed]

IsInLoop(o) == "pc" \in DOMAIN o

\* tiles.length after one more push
CountPush(pushed) ==
    IF pushed < MaxCountedTiles THEN pushed + 1 ELSE MaxCountedTiles - 1

\* v += maxDeg
Advance(v, start, maxDeg) ==
    IF maxDeg > 0 THEN v + maxDeg
    ELSE Max(v + maxDeg, start + MaxTrackedSteps * maxDeg)

InitSplitLoop ==
    /\ input \in [bounds : LoopBoxes, maxDeg : LoopMaxDegs]
    /\ output = Pending
    /\ BackgroundIdle

\* const tiles = []; let s = bounds.south
EnterSplitBounds ==
    /\ output = Pending
    /\ output' = InLoop("outer", input.bounds.south.v, input.bounds.west.v, 0)
    /\ UNCHANGED <<input, bgvars>>

\* s < bounds.north: let w = bounds.west, or else return tiles
OuterLoopTest ==
    /\ IsInLoop(output) /\ output.pc = "outer"
    /\ output' = IF output.s < input.bounds.north.v
                 THEN InLoop("inner", output.s, input.bounds.west.v, output.pushed)
                 ELSE [returned |-> output.pushed]
    /\ UNCHANGED <<input, bgvars>>

\* w < bounds.east: tiles.push({...}); w += maxDeg, or else s += maxDeg
InnerLoopTest ==
    /\ IsInLoop(output) /\ output.pc = "inner"
    /\ output' = IF output.w < input.bounds.east.v
                 THEN InLoop("inner", output.s,
                             Advance(output.w, input.bounds.west.v, input.maxDeg),
                             CountPush(output.pushed))
                 ELSE InLoop("outer", Advance(output.s, input.bounds.south.v, input.maxDeg),
                             output.w, output.pushed)
    /\ UNCHANGED <<input, bgvars>>

NextSplitLoop == EnterSplitBounds \/ OuterLoopTest \/ InnerLoopTest

\* the function runs on one thread: a loop that can take a step takes it
SpecSplitLoop == InitSplitLoop /\ [][NextSplitLoop]_vars /\ WF_vars(NextSplitLoop)

----------------------------------------------------------------------------
(* Raw OSM data.  An element is a record; a field the object lacks is not  *)
(* in the record's domain.  A null entry of an elements array is           *)
(* NullElement.  A response is NullResult (null), NoElementsResult (an     *)
(* object without an elements array) or [elements |-> <<...>>].            *)

NullElement == Null

NullResult == Null

NoElementsResult == [noElements |-> TRUE]

IsNull(x) == "isNull" \in DOMAIN x

\* !result || !Array.isArray(result.elements), negated
HasElements(x) == "elements" \in DOMAIN x

\* what reading a property of null or undefined throws
Thrown(msg) == [threw |-> msg]

IsThrown(x) == "threw" \in DOMAIN x

TypeErrorOnNull == "Cannot read properties of null (reading 'type')"

----------------------------------------------------------------------------
(* mergeOsmData(results)                                                    *)

\* a key that leaves the type out
ElementKeyIdOnly(element) == ToString(element.id)

\* const key = `${element.type}-${element.id}`
ElementKey(element) == element.type \o "-" \o ToString(element.id)

\* the elements of all results that have an elements array, in input order
RECURSIVE AllElements(_)
AllElements(results) ==
    IF results = <<>> THEN <<>>
    ELSE IF HasElements(Head(results))
         THEN Head(results).elements \o AllElements(Tail(results))
         ELSE AllElements(Tail(results))

\* the body of the inner loop, over the elements in order:
\* if (!seen.has(key)) { seen.add(key); elements.push(element); }
RECURSIVE MergeLoop(_, _, _)
MergeLoop(todo, seen, elements) ==
    IF todo = <<>> THEN [elements |-> elements]
    ELSE IF IsNull(Head(todo)) THEN Thrown(TypeErrorOnNull)
    ELSE LET key == ElementKey(Head(todo))
         IN  IF key \in seen
             THEN MergeLoop(Tail(todo), seen, elements)
             ELSE MergeLoop(Tail(todo), seen \cup {key}, Append(elements, Head(todo)))

\* a merge that keeps every element of every result
mergeOsmDataKeepingAll(results) == [elements |-> AllElements(results)]

mergeOsmData(results) == MergeLoop(AllElements(results), {}, <<>>)

----------------------------------------------------------------------------
(* convertToGraph(osmData)                                                  *)

\* calculateDistance is the Haversine formula on doubles; the model keeps the
\* call as a term over its four arguments
calculateDistance(lat1, lon1, lat2, lon2) == <<"km", lat1, lon1, lat2, lon2>>

EmptyObject == <<>>

EmptyGraph ==
    [directed |-> TRUE, multigraph |-> FALSE, graph |-> EmptyObject,
     nodes |-> <<>>, edges |-> <<>>]

\* element.type, undefined when the object has none
TypeOf(element) == IF "type" \in DOMAIN element THEN element.type ELSE "undefined"

IndexOfId(nodes, id) ==
    IF \E i \in 1..Len(nodes) : nodes[i].id = id
    THEN CHOOSE i \in 1..Len(nodes) : nodes[i].id = id
    ELSE 0

\* Map.prototype.set: a new key is appended in insertion order, an existing key
\* keeps its place and takes the new value
MapSet(nodes, node) ==
    IF IndexOfId(nodes, node.id) = 0
    THEN Append(nodes, node)
    ELSE [nodes EXCEPT ![IndexOfId(nodes, node.id)] = node]

\* first pass: nodes.set(element.id, { id, lat, lon }) for every node element
RECURSIVE CollectNodes(_, _)
CollectNodes(elements, nodes) ==
    IF elements = <<>> THEN nodes
    ELSE IF TypeOf(Head(elements)) = "node"
         THEN CollectNodes(Tail(elements),
                  MapSet(nodes, [id |-> Head(elements).id, lat |-> Head(elements).lat,
                                 lon |-> Head(elements).lon]))
         ELSE CollectNodes(Tail(elements), nodes)

\* tags.highway || '' (also tags.name || '')
TagOrEmpty(tags, k) == IF k \in DOMAIN tags THEN tags[k] ELSE ""

\* a builder that ignores the oneway tag: both directions for every pair
SegmentEdgesIgnoringOneway(way, i, nodes) ==
    LET tags == IF "tags" \in DOMAIN way THEN way.tags ELSE <<>>
        fi == IndexOfId(nodes, way.nodes[i])
        ti == IndexOfId(nodes, way.nodes[i + 1])
        edge(a, b) ==
            [source |-> a.id, target |-> b.id, wayId |-> way.id,
             weight |-> calculateDistance(nodes[fi].lat, nodes[fi].lon,
                                          nodes[ti].lat, nodes[ti].lon),
             highway |-> TagOrEmpty(tags, "highway"), name |-> TagOrEmpty(tags, "name")]
    IN  IF fi # 0 /\ ti # 0
        THEN <<edge(nodes[fi], nodes[ti]), edge(nodes[ti], nodes[fi])>>
        ELSE <<>>

\* a builder that joins the referenced ids without looking them up
SegmentEdgesWithoutLookup(way, i, nodes) ==
    LET tags == IF "tags" \in DOMAIN way THEN way.tags ELSE <<>>
        edge(a, b) ==
            [source |-> a, target |-> b, wayId |-> way.id,
             weight |-> calculateDistance(a, a, b, b),
             highway |-> TagOrEmpty(tags, "highway"), name |-> TagOrEmpty(tags, "name")]
    IN  <<edge(way.nodes[i], way.nodes[i + 1]), edge(way.nodes[i + 1], way.nodes[i])>>

\* a builder that emits the reverse edge before the forward edge
SegmentEdgesReverseFirst(way, i, nodes) ==
    LET tags == IF "tags" \in DOMAIN way THEN way.tags ELSE <<>>
        oneway == IF "oneway" \in DOMAIN tags THEN tags["oneway"] ELSE "undefined"
        fi == IndexOfId(nodes, way.nodes[i])
        ti == IndexOfId(nodes, way.nodes[i + 1])
        edge(a, b) ==
            [source |-> a.id, target |-> b.id, wayId |-> way.id,
             weight |-> calculateDistance(nodes[fi].lat, nodes[fi].lon,
                                          nodes[ti].lat, nodes[ti].lon),
             highway |-> TagOrEmpty(tags, "highway"), name |-> TagOrEmpty(tags, "name")]
    IN  IF fi # 0 /\ ti # 0
        THEN (IF oneway \notin {"yes", "true", "1"}
              THEN <<edge(nodes[ti], nodes[fi])>> ELSE <<>>)
             \o (IF oneway # "-1" THEN <<edge(nodes[fi], nodes[ti])>> ELSE <<>>)
        ELSE <<>>

\* the edges of the pair (way.nodes[i], way.nodes[i + 1])
SegmentEdges(way, i, nodes) ==
    LET tags == IF "tags" \in DOMAIN way THEN way.tags ELSE <<>>
        oneway == IF "oneway" \in DOMAIN tags THEN tags["oneway"] ELSE "undefined"
        fi == IndexOfId(nodes, way.nodes[i])
        ti == IndexOfId(nodes, way.nodes[i + 1])
        \* const edgeAttrs = { wayId: element.id, weight, highway, name }
        edge(a, b) ==
            [source |-> a.id, target |-> b.id, wayId |-> way.id,
             weight |-> calculateDistance(nodes[fi].lat, nodes[fi].lon,
                                          nodes[ti].lat, nodes[ti].lon),
             highway |-> TagOrEmpty(tags, "highway"), name |-> TagOrEmpty(tags, "name")]
    IN  IF fi # 0 /\ ti # 0
        THEN (IF oneway # "-1" THEN <<edge(nodes[fi], nodes[ti])>> ELSE <<>>)
             \o (IF oneway \notin {"yes", "true", "1"}
                 THEN <<edge(nodes[ti], nodes[fi])>> ELSE <<>>)
        ELSE <<>>

\* a segment loop that gives up on a way at its first unresolved pair
RECURSIVE WayEdgesUntilUnresolved(_, _, _)
WayEdgesUntilUnresolved(way, i, nodes) ==
    IF i >= Len(way.nodes) \/ SegmentEdges(way, i, nodes) = <<>> THEN <<>>
    ELSE SegmentEdges(way, i, nodes) \o WayEdgesUntilUnresolved(way, i + 1, nodes)

\* for (let i = 0; i < element.nodes.length - 1; i++)
RECURSIVE WayEdges(_, _, _)
WayEdges(way, i, nodes) ==
    IF i >= Len(way.nodes) THEN <<>>
    ELSE SegmentEdges(way, i, nodes) \o WayEdges(way, i + 1, nodes)

\* second pass: the edges of every way element that has a nodes array
RECURSIVE CollectEdges(_, _)
CollectEdges(elements, nodes) ==
    IF elements = <<>> THEN <<>>
    ELSE IF TypeOf(Head(elements)) = "way" /\ "nodes" \in DOMAIN Head(elements)
         THEN WayEdges(Head(elements), 1, nodes) \o CollectEdges(Tail(elements), nodes)
         ELSE CollectEdges(Tail(elements), nodes)

convertToGraph(osmData) ==
    IF ~HasElements(osmData) THEN EmptyGraph
    ELSE IF \E i \in 1..Len(osmData.elements) : IsNull(osmData.elements[i])
    THEN Thrown(TypeErrorOnNull)
    ELSE LET nodes == CollectNodes(osmData.elements, <<>>)
         IN  [directed |-> TRUE, multigraph |-> FALSE, graph |-> EmptyObject,
              nodes |-> nodes, edges |-> CollectEdges(osmData.elements, nodes)]

----------------------------------------------------------------------------
(* The raw data mergeOsmData and convertToGraph are applied to.             *)

Node(id, lat, lon) == [type |-> "node", id |-> id, lat |-> lat, lon |-> lon]

Way(id, nodes, tags) == [type |-> "way", id |-> id, nodes |-> nodes, tags |-> tags]

NodeSamples == {Node(1, 0, 0), Node(1, 5, 5), Node(2, 0, 3), Node(3, 4, 0)}

WaySamples ==
    {Way(100, <<1, 2>>, [highway |-> "residential", name |-> "Main St"]),
     Way(101, <<1, 2, 3>>, [highway |-> "primary", oneway |-> "yes"]),
     Way(102, <<2, 9, 1, 3>>, [oneway |-> "-1"]),
     [type |-> "way", id |-> 103],
     [type |-> "way", id |-> 104, nodes |-> <<3, 1>>],
     Way(105, <<2>>, [highway |-> "path"])}

\* sequences over S of length at most n
SeqsUpTo(S, n) == UNION {[1..k -> S] : k \in 0..n}

MaxResults == 2

MaxElementsPerResult == 2

\* the same identity with different content, and the same id under both types
MergeElements == {Node(1, 0, 0), Node(1, 5, 5), [type |-> "way", id |-> 1]}

MergeResults(n) ==
    {NullResult, NoElementsResult}
    \cup {[elements |-> es] : es \in SeqsUpTo(MergeElements, n)}

InitMerge ==
    /\ input \in SeqsUpTo(MergeResults(MaxElementsPerResult), MaxResults)
    /\ output = Pending
    /\ BackgroundIdle

CallMergeOsmData ==
    /\ output = Pending
    /\ output' = mergeOsmData(input)
    /\ UNCHANGED <<input, bgvars>>

NextMerge == CallMergeOsmData

SpecMerge == InitMerge /\ [][NextMerge]_vars

MaxElements == 4

GraphInputs(n) ==
    {NullResult, NoElementsResult}
    \cup {[elements |-> es] :
            es \in SeqsUpTo(NodeSamples \cup WaySamples \cup {NullElement}, n)}

InitGraph ==
    /\ input \in GraphInputs(MaxElements)
    /\ output = Pending
    /\ BackgroundIdle

CallConvertToGraph ==
    /\ output = Pending
    /\ output' = convertToGraph(input)
    /\ UNCHANGED <<input, bgvars>>

NextGraph == CallConvertToGraph

SpecGraph == InitGraph /\ [][NextGraph]_vars

(* The ways convertToGraph is applied to for the oneway tag: a way through  *)
(* nodes 1, 2, 3 without tags, with tags but no oneway tag, and with each   *)
(* of the values below; node 3 may be missing from the stream.              *)

OnewayValues == <<"-1", "yes", "true", "1", "no", "reversible">>

OnewayWay(k) == Way(201 + k, <<1, 2, 3>>, [oneway |-> OnewayValues[k]])

OnewayWays ==
    {[type |-> "way", id |-> 200, nodes |-> <<1, 2, 3>>],
     Way(201, <<1, 2, 3>>, [highway |-> "service"])}
    \cup {OnewayWay(k) : k \in 1..Len(OnewayValues)}

OnewayInputs(n) ==
    {[elements |-> es] :
        es \in SeqsUpTo({Node(1, 0, 0), Node(2, 0, 3), Node(3, 4, 0)} \cup OnewayWays, n)}

InitOneway ==
    /\ input \in OnewayInputs(MaxElements)
    /\ output = Pending
    /\ BackgroundIdle

NextOneway == CallConvertToGraph

SpecOneway == InitOneway /\ [][NextOneway]_vars

(* The tiled build: fetchOsmData merges the bodies of the tiles and the     *)
(* listener converts the merged data.  Two overlapping tiles, each any      *)
(* list of up to MaxTileElements of the elements below (two nodes, a way    *)
(* between them, and a second way over the same two nodes), and possibly a  *)
(* third tile that holds all of them.                                       *)

MaxTileElements == 3

TileElements ==
    {Node(1, 0, 0), Node(2, 0, 3),
     Way(100, <<1, 2>>, [highway |-> "residential", name |-> "Main St"]),
     Way(106, <<2, 1>>, [highway |-> "service", oneway |-> "yes"])}

FullTile ==
    [elements |-> <<Node(1, 0, 0), Node(2, 0, 3),
                    Way(100, <<1, 2>>, [highway |-> "residential", name |-> "Main St"]),
                    Way(106, <<2, 1>>, [highway |-> "service", oneway |-> "yes"])>>]

TiledInputs(n) ==
    {<<[elements |-> first], [elements |-> second]>> \o third :
        first \in SeqsUpTo(TileElements, n), second \in SeqsUpTo(TileElements, n),
        third \in {<<>>, <<FullTile>>}}

InitTiledGraph ==
    /\ input \in TiledInputs(MaxTileElements)
    /\ output = Pending
    /\ BackgroundIdle

\* return mergeOsmData(results), then graphCache = convertToGraph(data)
CallBuildFromTiles ==
    /\ output = Pending
    /\ output' = convertToGraph(mergeOsmData(input))
    /\ UNCHANGED <<input, bgvars>>

NextTiledGraph == CallBuildFromTiles

SpecTiledGraph == InitTiledGraph /\ [][NextTiledGraph]_vars

----------------------------------------------------------------------------
(* The serializers.  A JavaScript string is the sequence of its characters, *)
(* each a one-character string.  A field of a node or an edge is a tagged   *)
(* value: Num(n), Str(chars) or Missing.                                    *)

Str(chars) == [t |-> "str", v |-> chars]

Digits == <<"0", "1", "2", "3", "4", "5", "6", "7", "8", "9">>

RECURSIVE NatString(_)
NatString(n) ==
    IF n < 10 THEN <<Digits[n + 1]>>
    ELSE NatString(n \div 10) \o <<Digits[(n % 10) + 1]>>

\* String(value) for an integer, a string and undefined
StringOf(value) ==
    CASE value.t = "num" -> IF value.v < 0 THEN <<"-">> \o NatString(-value.v)
                            ELSE NatString(value.v)
      [] value.t = "str" -> value.v
      [] value.t = "undefined" ->
            <<"u", "n", "d", "e", "f", "i", "n", "e", "d">>

\* value ?? ''
OrEmptyIfNullish(value) == IF value.t = "undefined" THEN Str(<<>>) ELSE value

\* value || ''
OrEmptyIfFalsy(value) ==
    IF value.t = "undefined" \/ value = Str(<<>>) \/ value = Num(0) \/ value.t = "nan"
    THEN Str(<<>>) ELSE value

\* str.includes(c)
Includes(chars, c) == \E i \in 1..Len(chars) : chars[i] = c

\* str.replace(/c/g, by)
RECURSIVE ReplaceAll(_, _, _)
ReplaceAll(chars, c, by) ==
    IF chars = <<>> THEN <<>>
    ELSE (IF Head(chars) = c THEN by ELSE <<Head(chars)>>) \o ReplaceAll(Tail(chars), c, by)

\* parts.join(sep)
RECURSIVE Join(_, _)
Join(parts, sep) ==
    IF parts = <<>> THEN <<>>
    ELSE IF Len(parts) = 1 THEN parts[1]
    ELSE parts[1] \o sep \o Join(Tail(parts), sep)

csvEscape(value) ==
    LET str == StringOf(OrEmptyIfNullish(value))
    IN  IF Includes(str, ",") \/ Includes(str, "\"") \/ Includes(str, "\n")
        THEN <<"\"">> \o ReplaceAll(str, "\"", <<"\"", "\"">>) \o <<"\"">>
        ELSE str

\* const header = 'source,target,weight,highway,name,wayId'
CsvHeader ==
    <<"s", "o", "u", "r", "c", "e", ",", "t", "a", "r", "g", "e", "t", ",",
      "w", "e", "i", "g", "h", "t", ",", "h", "i", "g", "h", "w", "a", "y",
      ",", "n", "a", "m", "e", ",", "w", "a", "y", "I", "d">>

CsvRow(edge) ==
    Join(<<csvEscape(edge.source), csvEscape(edge.target), csvEscape(edge.weight),
           csvEscape(OrEmptyIfFalsy(edge.highway)), csvEscape(OrEmptyIfFalsy(edge.name)),
           csvEscape(edge.wayId)>>, <<",">>)

convertToCSV(graph) ==
    Join(<<CsvHeader>> \o [k \in 1..Len(graph.edges) |-> CsvRow(graph.edges[k])], <<"\n">>)

(* The graphs convertToCSV is applied to: edges whose name is any string of *)
(* up to MaxFieldLen characters, commas, quotes, line feeds and carriage    *)
(* returns among them, between edges with plain and with quoted fields.     *)

GraphEdge(source, target, weight, highway, name, wayId) ==
    [source |-> Num(source), target |-> Num(target), weight |-> Num(weight),
     highway |-> Str(highway), name |-> Str(name), wayId |-> Num(wayId)]

MaxFieldLen == 2

MaxCsvEdges == 3

CsvAlphabet == {"a", ",", "\"", "\n", "\r"}

CsvNamedEdges(n) ==
    {GraphEdge(1, 2, 35, highway, name, 100) :
        highway \in {<<>>, <<"a", ",">>}, name \in SeqsUpTo(CsvAlphabet, n)}

CsvOtherEdges ==
    {GraphEdge(12, 1, 0, <<>>, <<>>, 7),
     GraphEdge(2, 12, 4, <<"\"">>, <<"a", "\n", "a">>, 100)}

CsvInputs(n, m) ==
    {[nodes |-> <<>>, edges |-> <<>>]}
    \cup {[nodes |-> <<>>, edges |-> before \o <<e>> \o after] :
            e \in CsvNamedEdges(n),
            before \in SeqsUpTo(CsvOtherEdges, 1),
            after \in SeqsUpTo(CsvOtherEdges, m - 2)}

InitCsv ==
    /\ input \in CsvInputs(MaxFieldLen, MaxCsvEdges)
    /\ output = Pending
    /\ BackgroundIdle

CallConvertToCSV ==
    /\ output = Pending
    /\ output' = [text |-> convertToCSV(input)]
    /\ UNCHANGED <<input, bgvars>>

NextCsv == CallConvertToCSV

SpecCsv == InitCsv /\ [][NextCsv]_vars

(* convertToGraphML.  The template literals of the source, character by    *)
(* character; an interpolation ${...} sits between two pieces.              *)

\* an escape that leaves the double quote as it is
escapeXmlKeepingQuotes(value) ==
    ReplaceAll(ReplaceAll(ReplaceAll(ReplaceAll(StringOf(value),
        "&", <<"&", "a", "m", "p", ";">>),
        "<", <<"&", "l", "t", ";">>),
        ">", <<"&", "g", "t", ";">>),
        "'", <<"&", "a", "p", "o", "s", ";">>)

\* an escape that replaces the ampersand last
escapeXmlAmpersandLast(value) ==
    ReplaceAll(ReplaceAll(ReplaceAll(ReplaceAll(ReplaceAll(StringOf(value),
        "<", <<"&", "l", "t", ";">>),
        ">", <<"&", "g", "t", ";">>),
        "\"", <<"&", "q", "u", "o", "t", ";">>),
        "'", <<"&", "a", "p", "o", "s", ";">>),
        "&", <<"&", "a", "m", "p", ";">>)

escapeXml(value) ==
    ReplaceAll(ReplaceAll(ReplaceAll(ReplaceAll(ReplaceAll(StringOf(value),
        "&", <<"&", "a", "m", "p", ";">>),
        "<", <<"&", "l", "t", ";">>),
        ">", <<"&", "g", "t", ";">>),
        "\"", <<"&", "q", "u", "o", "t", ";">>),
        "'", <<"&", "a", "p", "o", "s", ";">>)

GraphMLHeader ==
    <<"<", "?", "x", "m", "l", " ", "v", "e", "r", "s", "i", "o", "n", "=",
      "\"", "1", ".", "0", "\"", " ", "e", "n", "c", "o", "d", "i", "n",
      "g", "=", "\"", "U", "T", "F", "-", "8", "\"", "?", ">", "\n", "<",
      "g", "r", "a", "p", "h", "m", "l", " ", "x", "m", "l", "n", "s", "=",
      "\"", "h", "t", "t", "p", ":", "/", "/", "g", "r", "a", "p", "h",
      "m", "l", ".", "g", "r", "a", "p", "h", "d", "r", "a", "w", "i", "n",
      "g", ".", "o", "r", "g", "/", "x", "m", "l", "n", "s", "\"", ">",
      "\n", " ", " ", " ", " ", "<", "k", "e", "y", " ", "i", "d", "=",
      "\"", "l", "a", "t", "\"", " ", "f", "o", "r", "=", "\"", "n", "o",
      "d", "e", "\"", " ", "a", "t", "t", "r", ".", "n", "a", "m", "e",
      "=", "\"", "l", "a", "t", "\"", " ", "a", "t", "t", "r", ".", "t",
      "y", "p", "e", "=", "\"", "d", "o", "u", "b", "l", "e", "\"", "/",
      ">", "\n", " ", " ", " ", " ", "<", "k", "e", "y", " ", "i", "d",
      "=", "\"", "l", "o", "n", "\"", " ", "f", "o", "r", "=", "\"", "n",
      "o", "d", "e", "\"", " ", "a", "t", "t", "r", ".", "n", "a", "m",
      "e", "=", "\"", "l", "o", "n", "\"", " ", "a", "t", "t", "r", ".",
      "t", "y", "p", "e", "=", "\"", "d", "o", "u", "b", "l", "e", "\"",
      "/", ">", "\n", " ", " ", " ", " ", "<", "k", "e", "y", " ", "i",
      "d", "=", "\"", "w", "e", "i", "g", "h", "t", "\"", " ", "f", "o",
      "r", "=", "\"", "e", "d", "g", "e", "\"", " ", "a", "t", "t", "r",
      ".", "n", "a", "m", "e", "=", "\"", "w", "e", "i", "g", "h", "t",
      "\"", " ", "a", "t", "t", "r", ".", "t", "y", "p", "e", "=", "\"",
      "d", "o", "u", "b", "l", "e", "\"", "/", ">", "\n", " ", " ", " ",
      " ", "<", "k", "e", "y", " ", "i", "d", "=", "\"", "w", "a", "y",
      "I", "d", "\"", " ", "f", "o", "r", "=", "\"", "e", "d", "g", "e",
      "\"", " ", "a", "t", "t", "r", ".", "n", "a", "m", "e", "=", "\"",
      "w", "a", "y", "I", "d", "\"", " ", "a", "t", "t", "r", ".", "t",
      "y", "p", "e", "=", "\"", "l", "o", "n", "g", "\"", "/", ">", "\n",
      " ", " ", " ", " ", "<", "k", "e", "y", " ", "i", "d", "=", "\"",
      "h", "i", "g", "h", "w", "a", "y", "\"", " ", "f", "o", "r", "=",
      "\"", "e", "d", "g", "e", "\"", " ", "a", "t", "t", "r", ".", "n",
      "a", "m", "e", "=", "\"", "h", "i", "g", "h", "w", "a", "y", "\"",
      " ", "a", "t", "t", "r", ".", "t", "y", "p", "e", "=", "\"", "s",
      "t", "r", "i", "n", "g", "\"", "/", ">", "\n", " ", " ", " ", " ",
      "<", "k", "e", "y", " ", "i", "d", "=", "\"", "n", "a", "m", "e",
      "\"", " ", "f", "o", "r", "=", "\"", "e", "d", "g", "e", "\"", " ",
      "a", "t", "t", "r", ".", "n", "a", "m", "e", "=", "\"", "n", "a",
      "m", "e", "\"", " ", "a", "t", "t", "r", ".", "t", "y", "p", "e",
      "=", "\"", "s", "t", "r", "i", "n", "g", "\"", "/", ">", "\n", " ",
      " ", " ", " ", "<", "g", "r", "a", "p", "h", " ", "i", "d", "=",
      "\"", "G", "\"", " ", "e", "d", "g", "e", "d", "e", "f", "a", "u",
      "l", "t", "=", "\"", "d", "i", "r", "e", "c", "t", "e", "d", "\"",
      ">", "\n">>

NodePiece0 ==
    <<" ", " ", " ", " ", " ", " ", " ", " ", "<", "n", "o", "d", "e", " ",
      "i", "d", "=", "\"">>

NodePiece1 ==
    <<"\"", ">", "\n", " ", " ", " ", " ", " ", " ", " ", " ", " ", " ",
      " ", " ", "<", "d", "a", "t", "a", " ", "k", "e", "y", "=", "\"",
      "l", "a", "t", "\"", ">">>

NodePiece2 ==
    <<"<", "/", "d", "a", "t", "a", ">", "\n", " ", " ", " ", " ", " ",
      " ", " ", " ", " ", " ", " ", " ", "<", "d", "a", "t", "a", " ", "k",
      "e", "y", "=", "\"", "l", "o", "n", "\"", ">">>

NodePiece3 ==
    <<"<", "/", "d", "a", "t", "a", ">", "\n", " ", " ", " ", " ", " ",
      " ", " ", " ", "<", "/", "n", "o", "d", "e", ">", "\n">>

EdgePiece0 ==
    <<" ", " ", " ", " ", " ", " ", " ", " ", "<", "e", "d", "g", "e", " ",
      "i", "d", "=", "\"", "e">>

EdgePiece1 ==
    <<"\"", " ", "s", "o", "u", "r", "c", "e", "=", "\"">>

EdgePiece2 ==
    <<"\"", " ", "t", "a", "r", "g", "e", "t", "=", "\"">>

EdgePiece3 ==
    <<"\"", ">", "\n", " ", " ", " ", " ", " ", " ", " ", " ", " ", " ",
      " ", " ", "<", "d", "a", "t", "a", " ", "k", "e", "y", "=", "\"",
      "w", "e", "i", "g", "h", "t", "\"", ">">>

EdgePiece4 ==
    <<"<", "/", "d", "a", "t", "a", ">", "\n", " ", " ", " ", " ", " ",
      " ", " ", " ", " ", " ", " ", " ", "<", "d", "a", "t", "a", " ", "k",
      "e", "y", "=", "\"", "w", "a", "y", "I", "d", "\"", ">">>

EdgePiece5 ==
    <<"<", "/", "d", "a", "t", "a", ">", "\n", " ", " ", " ", " ", " ",
      " ", " ", " ", " ", " ", " ", " ", "<", "d", "a", "t", "a", " ", "k",
      "e", "y", "=", "\"", "h", "i", "g", "h", "w", "a", "y", "\"", ">">>

EdgePiece6 ==
    <<"<", "/", "d", "a", "t", "a", ">", "\n", " ", " ", " ", " ", " ",
      " ", " ", " ", " ", " ", " ", " ", "<", "d", "a", "t", "a", " ", "k",
      "e", "y", "=", "\"", "n", "a", "m", "e", "\"", ">">>

EdgePiece7 ==
    <<"<", "/", "d", "a", "t", "a", ">", "\n", " ", " ", " ", " ", " ",
      " ", " ", " ", "<", "/", "e", "d", "g", "e", ">", "\n">>

GraphMLFooter ==
    <<" ", " ", " ", " ", "<", "/", "g", "r", "a", "p", "h", ">", "\n",
      "<", "/", "g", "r", "a", "p", "h", "m", "l", ">">>

NodeElement(node) ==
    NodePiece0 \o escapeXml(node.id) \o NodePiece1 \o escapeXml(node.lat)
        \o NodePiece2 \o escapeXml(node.lon) \o NodePiece3

EdgeElement(edge, index) ==
    EdgePiece0 \o NatString(index) \o EdgePiece1 \o escapeXml(edge.source)
        \o EdgePiece2 \o escapeXml(edge.target)
        \o EdgePiece3 \o escapeXml(edge.weight)
        \o EdgePiece4 \o escapeXml(edge.wayId)
        \o EdgePiece5 \o escapeXml(OrEmptyIfFalsy(edge.highway))
        \o EdgePiece6 \o escapeXml(OrEmptyIfFalsy(edge.name))
        \o EdgePiece7

convertToGraphML(graph) ==
    GraphMLHeader
        \o Concat([k \in 1..Len(graph.nodes) |-> NodeElement(graph.nodes[k])])
        \o Concat([k \in 1..Len(graph.edges) |-> EdgeElement(graph.edges[k], k - 1)])
        \o GraphMLFooter

(* The values escapeXml is applied to: every string of up to MaxEscapeLen  *)
(* characters among the five it replaces, a letter and a semicolon; text    *)
(* that already holds entities; and numbers.                                *)

MaxEscapeLen == 3

EscapeAlphabet == {"a", ";", "&", "<", ">", "\"", "'"}

EscapeInputs(n) ==
    {Num(0), Num(7), Num(-12), Num(350)}
    \cup {Str(text) : text \in SeqsUpTo(EscapeAlphabet, n)}
    \cup {Str(<<"&", "a", "m", "p", ";">>), Str(<<"&", "l", "t", ";", "<", "&", "a", "m", "p", ";">>),
          Str(<<"&", "a", "m", "p", ";", "q", "u", "o", "t", ";">>)}

InitEscapeXml ==
    /\ input \in EscapeInputs(MaxEscapeLen)
    /\ output = Pending
    /\ BackgroundIdle

CallEscapeXml ==
    /\ output = Pending
    /\ output' = [text |-> escapeXml(input)]
    /\ UNCHANGED <<input, bgvars>>

NextEscapeXml == CallEscapeXml

SpecEscapeXml == InitEscapeXml /\ [][NextEscapeXml]_vars

(* The graphs convertToGraphML is applied to: a first node whose id is a    *)
(* number or any string of up to MaxFieldLen characters, markup characters  *)
(* among them, or a piece of markup itself; further nodes; and edges        *)
(* between the first and the last node whose names are pieces of markup.    *)

GraphNode(id, lat, lon) == [id |-> id, lat |-> Num(lat), lon |-> Num(lon)]

LinkedEdge(source, target, name) ==
    [source |-> source, target |-> target, weight |-> Num(35),
     highway |-> Str(<<>>), name |-> Str(name), wayId |-> Num(100)]

MaxGraphMLElements == 2

XmlAlphabet == {"a", "&", "<", ">", "\"", "'"}

NodeMarkup ==
    <<"<", "n", "o", "d", "e", " ">>

EdgeMarkup ==
    <<"<", "e", "d", "g", "e", " ", "i", "d", "=", "\"", "e", "0", "\"">>

AttributeMarkup ==
    <<"\"", " ", "s", "o", "u", "r", "c", "e", "=", "\"", "1">>

GraphMLIds(n) ==
    {Num(1), Str(NodeMarkup), Str(AttributeMarkup)}
    \cup {Str(id) : id \in SeqsUpTo(XmlAlphabet, n)}

GraphMLOtherNodes == {GraphNode(Num(12), 10, -8), GraphNode(Str(EdgeMarkup), 0, 4)}

GraphMLNodes(n, m) ==
    {<<GraphNode(id, 7, 3)>> \o others :
        id \in GraphMLIds(n), others \in SeqsUpTo(GraphMLOtherNodes, m - 1)}

GraphMLEdges(nodes) ==
    {LinkedEdge(nodes[1].id, nodes[Len(nodes)].id, NodeMarkup),
     LinkedEdge(nodes[Len(nodes)].id, nodes[1].id, EdgeMarkup),
     LinkedEdge(nodes[1].id, nodes[1].id, <<"&", "l", "t", ";", "'">>)}

GraphMLInputs(n, m) ==
    {[nodes |-> <<>>, edges |-> <<>>]}
    \cup UNION {{[nodes |-> nodes, edges |-> edges] :
                    edges \in SeqsUpTo(GraphMLEdges(nodes), m - 1)} :
                nodes \in GraphMLNodes(n, m)}

InitGraphML ==
    /\ input \in GraphMLInputs(MaxFieldLen, MaxGraphMLElements)
    /\ output = Pending
    /\ BackgroundIdle

CallConvertToGraphML ==
    /\ output = Pending
    /\ output' = [text |-> convertToGraphML(input)]
    /\ UNCHANGED <<input, bgvars>>

NextGraphML == CallConvertToGraphML

SpecGraphML == InitGraphML /\ [][NextGraphML]_vars

(* convertToTikZ.  A coordinate is a number of centimetres; the model holds *)
(* it in ten-thousandths, the digits toFixed(4) writes.  One degree is      *)
(* OneDegree units.                                                         *)

OneDegree == 200

TikZEmptyDocument ==
    <<"\\", "d", "o", "c", "u", "m", "e", "n", "t", "c", "l", "a", "s",
      "s", "[", "t", "i", "k", "z", "]", "{", "s", "t", "a", "n", "d", "a",
      "l", "o", "n", "e", "}", "\n", "\\", "b", "e", "g", "i", "n", "{",
      "d", "o", "c", "u", "m", "e", "n", "t", "}", "\n", "\\", "b", "e",
      "g", "i", "n", "{", "t", "i", "k", "z", "p", "i", "c", "t", "u", "r",
      "e", "}", "\n", " ", " ", "%", " ", "e", "m", "p", "t", "y", " ",
      "g", "r", "a", "p", "h", "\n", "\\", "e", "n", "d", "{", "t", "i",
      "k", "z", "p", "i", "c", "t", "u", "r", "e", "}", "\n", "\\", "e",
      "n", "d", "{", "d", "o", "c", "u", "m", "e", "n", "t", "}">>

CoordPiece0 ==
    <<" ", " ", "\\", "n", "o", "d", "e", "[", "v", "e", "r", "t", "e",
      "x", "]", " ", "(", "n">>

CoordPiece1 ==
    <<")", " ", "a", "t", " ", "(">>

CoordPiece2 ==
    <<",">>

CoordPiece3 ==
    <<")", " ", "{", "}", ";">>

DrawPiece0 ==
    <<" ", " ", "\\", "d", "r", "a", "w", "[", "e", "d", "g", "e", "]",
      " ", "(", "n">>

DrawPiece1 ==
    <<")", " ", "-", "-", " ", "(", "n">>

DrawPiece2 ==
    <<")", ";">>

TikZPiece0 ==
    <<"\\", "d", "o", "c", "u", "m", "e", "n", "t", "c", "l", "a", "s",
      "s", "[", "t", "i", "k", "z", "]", "{", "s", "t", "a", "n", "d", "a",
      "l", "o", "n", "e", "}", "\n", "\\", "u", "s", "e", "p", "a", "c",
      "k", "a", "g", "e", "{", "t", "i", "k", "z", "}", "\n", "\\", "b",
      "e", "g", "i", "n", "{", "d", "o", "c", "u", "m", "e", "n", "t", "}",
      "\n", "\\", "b", "e", "g", "i", "n", "{", "t", "i", "k", "z", "p",
      "i", "c", "t", "u", "r", "e", "}", "[", "\n", " ", " ", "v", "e",
      "r", "t", "e", "x", "/", ".", "s", "t", "y", "l", "e", "=", "{", "c",
      "i", "r", "c", "l", "e", ",", " ", "f", "i", "l", "l", "=", "b", "l",
      "a", "c", "k", ",", " ", "i", "n", "n", "e", "r", " ", "s", "e", "p",
      "=", "0", "p", "t", ",", " ", "m", "i", "n", "i", "m", "u", "m", " ",
      "s", "i", "z", "e", "=", "1", ".", "5", "p", "t", "}", ",", "\n",
      " ", " ", "e", "d", "g", "e", "/", ".", "s", "t", "y", "l", "e", "=",
      "{", "d", "r", "a", "w", ",", " ", "t", "h", "i", "n", ",", " ", "b",
      "l", "a", "c", "k", "!", "4", "0", "}", ",", "\n", "]", "\n">>

TikZPiece1 ==
    <<"\n">>

TikZPiece2 ==
    <<"\n", "\\", "e", "n", "d", "{", "t", "i", "k", "z", "p", "i", "c",
      "t", "u", "r", "e", "}", "\n", "\\", "e", "n", "d", "{", "d", "o",
      "c", "u", "m", "e", "n", "t", "}">>

\* the least and the greatest of a coordinate over the nodes
LeastOf(nodes, field) ==
    CHOOSE m \in {nodes[k][field].v : k \in 1..Len(nodes)} :
        \A k \in 1..Len(nodes) : m <= nodes[k][field].v

GreatestOf(nodes, field) ==
    CHOOSE m \in {nodes[k][field].v : k \in 1..Len(nodes)} :
        \A k \in 1..Len(nodes) : m >= nodes[k][field].v

\* maxLat - minLat || 1
RangeOrOne(nodes, field) ==
    IF GreatestOf(nodes, field) - LeastOf(nodes, field) = 0 THEN OneDegree
    ELSE GreatestOf(nodes, field) - LeastOf(nodes, field)

\* the divisor of scale = 10 / Math.max(latRange, lonRange)
ScaleDivisor(nodes) == Max(RangeOrOne(nodes, "lat"), RangeOrOne(nodes, "lon"))

\* ((n.lon - minLon) * scale), in ten-thousandths, rounded to the nearest
Scaled(nodes, n, field) ==
    (2 * 100000 * (n[field].v - LeastOf(nodes, field)) + ScaleDivisor(nodes))
        \div (2 * ScaleDivisor(nodes))

\* x.toFixed(4) for x >= 0 held in ten-thousandths
ToFixed4(tenThousandths) ==
    LET frac == tenThousandths % 10000
    IN  NatString(tenThousandths \div 10000) \o <<".">>
            \o <<Digits[(frac \div 1000) + 1], Digits[((frac \div 100) % 10) + 1],
                  Digits[((frac \div 10) % 10) + 1], Digits[(frac % 10) + 1]>>

\* idToIdx.has(id) and idToIdx.get(id): set overwrites, the last index stays
HasIdx(nodes, id) == \E k \in 1..Len(nodes) : nodes[k].id = id

IdToIdx(nodes, id) ==
    (CHOOSE k \in 1..Len(nodes) :
        nodes[k].id = id /\ \A j \in (k + 1)..Len(nodes) : nodes[j].id # id) - 1

CoordLine(nodes, n) ==
    CoordPiece0 \o NatString(IdToIdx(nodes, n.id))
        \o CoordPiece1 \o ToFixed4(Scaled(nodes, n, "lon"))
        \o CoordPiece2 \o ToFixed4(Scaled(nodes, n, "lat"))
        \o CoordPiece3

\* a key that keeps the direction of the edge
EdgeKeyDirected(si, ti) == NatString(si) \o <<"-">> \o NatString(ti)

\* const key = `${lo}-${hi}`
EdgeKey(si, ti) == NatString(Min(si, ti)) \o <<"-">> \o NatString(Max(si, ti))

DrawLine(si, ti) ==
    DrawPiece0 \o NatString(si) \o DrawPiece1 \o NatString(ti) \o DrawPiece2

\* the loop over the edges: edgeSet and edgeLines after the edges from the k-th on
RECURSIVE EdgeLines(_, _, _, _, _)
EdgeLines(nodes, edges, k, edgeSet, edgeLines) ==
    IF k > Len(edges) THEN edgeLines
    ELSE IF ~HasIdx(nodes, edges[k].source) \/ ~HasIdx(nodes, edges[k].target)
    THEN EdgeLines(nodes, edges, k + 1, edgeSet, edgeLines)
    ELSE LET si == IdToIdx(nodes, edges[k].source)
             ti == IdToIdx(nodes, edges[k].target)
         IN  IF EdgeKey(si, ti) \in edgeSet
             THEN EdgeLines(nodes, edges, k + 1, edgeSet, edgeLines)
             ELSE EdgeLines(nodes, edges, k + 1, edgeSet \cup {EdgeKey(si, ti)},
                            edgeLines \o <<DrawLine(si, ti)>>)

convertToTikZ(graph) ==
    IF Len(graph.nodes) = 0 THEN TikZEmptyDocument
    ELSE TikZPiece0
            \o Join([k \in 1..Len(graph.nodes) |-> CoordLine(graph.nodes, graph.nodes[k])],
                    <<"\n">>)
            \o TikZPiece1
            \o Join(EdgeLines(graph.nodes, graph.edges, 1, {}, <<>>), <<"\n">>)
            \o TikZPiece2

(* The graphs convertToTikZ is applied to: two or three nodes with every    *)
(* list of up to MaxTikZEdges edges between nodes 1, 2 and a missing node   *)
(* 9, in both directions and as loops; and up to MaxTikZNodes nodes at      *)
(* every choice of positions, equal positions, one shared latitude and one  *)
(* shared longitude among them, with and without an edge; and no nodes.     *)

MaxTikZEdges == 3

MaxTikZNodes == 3

TikZEndpoints == {1, 2, 9}

TikZEdges ==
    {LinkedEdge(Num(source), Num(target), <<>>) :
        source \in TikZEndpoints, target \in TikZEndpoints}

TikZPlacedNodes == <<GraphNode(Num(1), 0, 0), GraphNode(Num(2), 4, 10), GraphNode(Num(3), 10, 2)>>

TikZPositions == {[lat |-> lat, lon |-> lon] : lat \in {0, 1, 400}, lon \in {-3, 0, 400}}

NodesAt(positions) ==
    [k \in 1..Len(positions) |-> GraphNode(Num(k), positions[k].lat, positions[k].lon)]

TikZInputs(n, m) ==
    {[nodes |-> SubSeq(TikZPlacedNodes, 1, count), edges |-> edges] :
        count \in {2, 3}, edges \in SeqsUpTo(TikZEdges, m)}
    \cup {[nodes |-> NodesAt(positions), edges |-> edges] :
            positions \in SeqsUpTo(TikZPositions, n),
            edges \in {<<>>, <<LinkedEdge(Num(1), Num(2), <<>>)>>}}

InitTikZ ==
    /\ input \in TikZInputs(MaxTikZNodes, MaxTikZEdges)
    /\ output = Pending
    /\ BackgroundIdle

CallConvertToTikZ ==
    /\ output = Pending
    /\ output' = [text |-> convertToTikZ(input)]
    /\ UNCHANGED <<input, bgvars>>

NextTikZ == CallConvertToTikZ

SpecTikZ == InitTikZ /\ [][NextTikZ]_vars

----------------------------------------------------------------------------
(* The background script.  A run is one call of fetchOsmData together with *)
(* the .then / .catch of the listener that started it:                     *)
(*   bounds     the request's bounds                                       *)
(*   tiled      needsTiling                                                *)
(*   tiles      the boxes to fetch: splitBounds(bounds), or bounds itself  *)
(*   idx        the tile the run is fetching                               *)
(*   stage      "fetch" (awaiting fetch), "json" (awaiting response.json), *)
(*              "done" (fetchOsmData resolved), "failed" (it rejected)     *)
(*   results    the results array of the tile loop                         *)
(*   returned   what fetchOsmData resolved with                            *)
(*   error      the message of the error it rejected with                  *)
(*   requested  history: the boxes of the fetch calls made, in order       *)
(*   delivered  history: what the transport answered for each tile         *)

\* a threshold that also tiles a span of exactly 0.1
NeedsTilingInclusive(bounds) ==
    \/ bounds.north.v - bounds.south.v >= TILE_THRESHOLD
    \/ bounds.east.v - bounds.west.v >= TILE_THRESHOLD

\* const needsTiling = latSpan > TILE_THRESHOLD || lonSpan > TILE_THRESHOLD
NeedsTiling(bounds) ==
    \/ bounds.north.v - bounds.south.v > TILE_THRESHOLD
    \/ bounds.east.v - bounds.west.v > TILE_THRESHOLD

NewRun(bounds) ==
    [bounds |-> bounds, tiled |-> FALSE, tiles |-> <<>>, idx |-> 0, stage |-> "fetch",
     results |-> <<>>, returned |-> Null, error |-> "",
     requested |-> <<>>, delivered |-> <<>>]

\* throw: fetchOsmData's catch logs and rethrows, the promise rejects
Reject(run, msg) == [run EXCEPT !.stage = "failed", !.error = msg]

\* return: the promise resolves with data
Resolve(run, data) == [run EXCEPT !.stage = "done", !.returned = data]

\* fetchTile(tiles[k]) up to its await: buildOverpassQuery validates the box, then
\* fetch() posts the query for it
FetchTile(run, k) ==
    IF validateBounds(run.tiles[k]).error # NoError
    THEN Reject(run, validateBounds(run.tiles[k]).error)
    ELSE [run EXCEPT !.idx = k, !.stage = "fetch",
                     !.requested = Append(run.requested, run.tiles[k])]

\* a loop that starts every tile's fetch before awaiting any
EnterTileLoopParallel(run) ==
    [run EXCEPT !.idx = 1, !.stage = "fetch", !.requested = run.tiles]

\* for (const tile of tiles) { results.push(await fetchTile(tile)); }: first iteration
EnterTileLoop(run) == FetchTile(run, 1)

\* a fetchOsmData that posts the query for the box before it validates it
StartRunFetchFirst(bounds) ==
    IF validateBounds(bounds).error # NoError
    THEN [Reject(NewRun(bounds), validateBounds(bounds).error) EXCEPT !.requested = <<bounds>>]
    ELSE IF ~NeedsTiling(bounds)
    THEN FetchTile([NewRun(bounds) EXCEPT !.tiles = <<bounds>>], 1)
    ELSE EnterTileLoop([NewRun(bounds) EXCEPT
                           !.tiled = TRUE, !.tiles = splitBounds(bounds, DefaultMaxDeg)])

\* fetchOsmData(bounds) up to its first await
StartRun(bounds) ==
    IF validateBounds(bounds).error # NoError
    THEN Reject(NewRun(bounds), validateBounds(bounds).error)
    ELSE IF ~NeedsTiling(bounds)
    THEN FetchTile([NewRun(bounds) EXCEPT !.tiles = <<bounds>>], 1)
    ELSE EnterTileLoop([NewRun(bounds) EXCEPT
                           !.tiled = TRUE, !.tiles = splitBounds(bounds, DefaultMaxDeg)])

(* What the transport can answer.                                           *)

NetworkError == [kind |-> "neterror"]

HttpStatus(status) == [kind |-> "http", status |-> status]

HttpOk == [kind |-> "ok"]

BadJson == [kind |-> "badjson"]

JsonBody(data) == [kind |-> "data", data |-> data]

\* the message of the error a failed fetch surfaces as
FailureMessage(outcome) ==
    CASE outcome.kind = "neterror" -> "Failed to fetch"
      [] outcome.kind = "http" -> "HTTP error! status: " \o ToString(outcome.status)
      [] outcome.kind = "badjson" -> "Unexpected token < in JSON at position 0"

\* a tile loop that drops a failed tile and goes on with the next one
AfterFetchSkipFailed(run, outcome) ==
    IF outcome.kind = "ok" THEN [run EXCEPT !.stage = "json"]
    ELSE IF run.tiled /\ run.idx < Len(run.tiles)
    THEN FetchTile([run EXCEPT !.delivered = Append(run.delivered, outcome)], run.idx + 1)
    ELSE Reject([run EXCEPT !.delivered = Append(run.delivered, outcome)],
                FailureMessage(outcome))

\* fetchTile after await fetch(...): a rejected fetch and a response that is not ok
\* both throw; otherwise response.json() is awaited
AfterFetch(run, outcome) ==
    IF outcome.kind = "ok" THEN [run EXCEPT !.stage = "json"]
    ELSE Reject([run EXCEPT !.delivered = Append(run.delivered, outcome)],
                FailureMessage(outcome))

\* after await response.json(): the untiled call returns the body; the tile loop
\* pushes it and fetches the next tile, or merges the results after the last
AfterJson(run, outcome) ==
    LET got == [run EXCEPT !.delivered = Append(run.delivered, outcome)]
    IN  IF outcome.kind = "badjson" THEN Reject(got, FailureMessage(outcome))
        ELSE IF ~run.tiled THEN Resolve(got, outcome.data)
        ELSE LET pushed == [got EXCEPT !.results = Append(run.results, outcome.data)]
             IN  IF run.idx < Len(run.tiles) THEN FetchTile(pushed, run.idx + 1)
                 ELSE IF IsThrown(mergeOsmData(pushed.results))
                 THEN Reject(pushed, mergeOsmData(pushed.results).threw)
                 ELSE Resolve(pushed, mergeOsmData(pushed.results))

\* the fetch calls the step from old to new made
NewRequests(r, old, new) ==
    {[run |-> r, idx |-> k] : k \in (Len(old.requested) + 1)..Len(new.requested)}

\* a listener that keeps the first graph it cached and answers with the cache
ContinueKeepingCache(r, old, new, answered) ==
    /\ runs' = IF r \in DOMAIN runs THEN [runs EXCEPT ![r] = new] ELSE runs @@ (r :> new)
    /\ inflight' = (inflight \ answered) \cup NewRequests(r, old, new)
    /\ IF new.stage = "failed"
       THEN /\ responses' = Append(responses, [to |-> r, success |-> FALSE, error |-> new.error])
            /\ graphCache' = graphCache
       ELSE IF new.stage = "done"
       THEN IF IsThrown(convertToGraph(new.returned))
            THEN /\ responses' = Append(responses,
                        [to |-> r, success |-> FALSE,
                         error |-> convertToGraph(new.returned).threw])
                 /\ graphCache' = graphCache
            ELSE /\ graphCache' = IF IsNull(graphCache) THEN convertToGraph(new.returned)
                                  ELSE graphCache
                 /\ responses' = Append(responses,
                        [to |-> r, success |-> TRUE, data |-> graphCache'])
       ELSE UNCHANGED <<responses, graphCache>>

\* the listener's .then and .catch, and the run's effect on the transport:
\*   .then(data => { graphCache = convertToGraph(data); sendResponse({ success: true, ... }) })
\*   .catch(error => { sendResponse({ success: false, error: error.message }) })
Continue(r, old, new, answered) ==
    /\ runs' = IF r \in DOMAIN runs THEN [runs EXCEPT ![r] = new] ELSE runs @@ (r :> new)
    /\ inflight' = (inflight \ answered) \cup NewRequests(r, old, new)
    /\ IF new.stage = "failed"
       THEN /\ responses' = Append(responses, [to |-> r, success |-> FALSE, error |-> new.error])
            /\ graphCache' = graphCache
       ELSE IF new.stage = "done"
       THEN IF IsThrown(convertToGraph(new.returned))
            THEN /\ responses' = Append(responses,
                        [to |-> r, success |-> FALSE,
                         error |-> convertToGraph(new.returned).threw])
                 /\ graphCache' = graphCache
            ELSE /\ graphCache' = convertToGraph(new.returned)
                 /\ responses' = Append(responses,
                        [to |-> r, success |-> TRUE, data |-> convertToGraph(new.returned)])
       ELSE UNCHANGED <<responses, graphCache>>

(* The requests and answers the background is run with.                     *)

MaxMessages == 2

\* two invalid requests, an untiled box, a box of exactly the threshold in both
\* spans, and a box one unit wider than the threshold
FetchBounds ==
    {[kind |-> "null", north |-> Missing, south |-> Missing, east |-> Missing,
      west |-> Missing],
     Box(Num(10), Num(15), Num(5), Num(0)),
     Box(Num(5), Num(0), Num(5), Num(0)),
     Box(Num(TILE_THRESHOLD), Num(0), Num(TILE_THRESHOLD), Num(0)),
     Box(Num(5), Num(0), Num(TILE_THRESHOLD + 1), Num(0))}

TileData ==
    {[elements |-> <<Node(1, 0, 0), Node(2, 0, 3),
                     Way(100, <<1, 2>>, [highway |-> "residential", name |-> "Main St"])>>],
     [elements |-> <<Node(2, 0, 3), Node(3, 4, 0),
                     Way(101, <<1, 2, 3>>, [highway |-> "primary", oneway |-> "yes"])>>]}

FetchOutcomes == {HttpOk, NetworkError} \cup {HttpStatus(st) : st \in {429}}

JsonOutcomes == {BadJson} \cup {JsonBody(d) : d \in TileData}

Init ==
    /\ input = Null
    /\ output = Null
    /\ BackgroundIdle

FetchRequest(bounds) == [type |-> "FETCH_OSM_DATA", bounds |-> bounds]

\* the listener is called with a request: it is message number handled + 1
Receive(request) ==
    /\ handled' = handled + 1
    /\ requests' = Append(requests, request)

\* chrome.runtime.onMessage: request.type === 'FETCH_OSM_DATA', for bounds of a set
FetchOsmDataFrom(boundsSet) ==
    /\ \E bounds \in boundsSet :
           /\ Receive(FetchRequest(bounds))
           /\ Continue(handled + 1, NewRun(bounds), StartRun(bounds), {})
    /\ UNCHANGED fnvars

\* the promise of fetch() settles with one of the outcomes
FetchSettlesWith(outcomes) ==
    /\ \E q \in inflight : \E outcome \in outcomes :
           /\ runs[q.run].stage = "fetch"
           /\ runs[q.run].idx = q.idx
           /\ Continue(q.run, runs[q.run], AfterFetch(runs[q.run], outcome),
                       IF outcome.kind = "ok" THEN {} ELSE {q})
    /\ UNCHANGED <<handled, requests, fnvars>>

\* the promise of response.json() settles with one of the outcomes
JsonSettlesWith(outcomes) ==
    /\ \E q \in inflight : \E outcome \in outcomes :
           /\ runs[q.run].stage = "json"
           /\ runs[q.run].idx = q.idx
           /\ Continue(q.run, runs[q.run], AfterJson(runs[q.run], outcome), {q})
    /\ UNCHANGED <<handled, requests, fnvars>>

OnFetchOsmData == handled < MaxMessages /\ FetchOsmDataFrom(FetchBounds)

FetchSettles == FetchSettlesWith(FetchOutcomes)

JsonSettles == JsonSettlesWith(JsonOutcomes)

Next == OnFetchOsmData \/ FetchSettles \/ JsonSettles

Spec == Init /\ [][Next]_vars

----------------------------------------------------------------------------
(* The other messages of the listener.  request.data of an EXPORT_GRAPH     *)
(* message is a graph, an object that is no graph, or is absent.  The text  *)
(* a serializer returns is kept as a term over the serializer and the graph *)
(* it was given; a serializer throws where it reads a field the object      *)
(* lacks.                                                                   *)

NoData == [absent |-> TRUE]

IsAbsent(x) == "absent" \in DOMAIN x

NotAGraph == [notAGraph |-> TRUE]

Serialized(serializer, graph) == [serializer |-> serializer, graph |-> graph]

TypeErrorOnUndefined(method) ==
    "Cannot read properties of undefined (reading '" \o method \o "')"

\* JSON.stringify(graphData, null, 2) / convertToGraphML / convertToCSV /
\* convertToTikZ applied to request.data
Serialize(format, graphData) ==
    CASE format = "json" -> Serialized("JSON.stringify", graphData)
      [] format = "graphml" ->
            IF "nodes" \notin DOMAIN graphData THEN Thrown(TypeErrorOnUndefined("forEach"))
            ELSE IF "edges" \notin DOMAIN graphData THEN Thrown(TypeErrorOnUndefined("forEach"))
            ELSE Serialized("convertToGraphML", graphData)
      [] format = "csv" ->
            IF "edges" \notin DOMAIN graphData THEN Thrown(TypeErrorOnUndefined("map"))
            ELSE Serialized("convertToCSV", graphData)
      [] format = "tikz" -> Serialized("convertToTikZ", graphData)

SupportedFormats == {"json", "graphml", "csv", "tikz"}

Failure(to, msg) == [to |-> to, success |-> FALSE, error |-> msg]

Success(to, data) == [to |-> to, success |-> TRUE, data |-> data]

\* an export that serializes the cached graph when the request carries none
ExportResponseFromCache(to, request) ==
    LET graphData == IF IsAbsent(request.data) THEN graphCache ELSE request.data
    IN  IF IsNull(graphData) THEN Failure(to, "No graph data available")
        ELSE IF request.format \notin SupportedFormats THEN Failure(to, "Unsupported format")
        ELSE IF IsThrown(Serialize(request.format, graphData))
        THEN Failure(to, Serialize(request.format, graphData).threw)
        ELSE Success(to, Serialize(request.format, graphData))

\* an export that looks at the format before it looks for the graph
ExportResponseFormatFirst(to, request) ==
    IF request.format \notin SupportedFormats THEN Failure(to, "Unsupported format")
    ELSE IF IsAbsent(request.data) THEN Failure(to, "No graph data available")
    ELSE IF IsThrown(Serialize(request.format, request.data))
    THEN Failure(to, Serialize(request.format, request.data).threw)
    ELSE Success(to, Serialize(request.format, request.data))

\* an export without the try / catch: the serializer's exception leaves the listener
ExportResponseUncaught(to, request) ==
    IF IsAbsent(request.data) THEN Failure(to, "No graph data available")
    ELSE IF request.format \notin SupportedFormats THEN Failure(to, "Unsupported format")
    ELSE IF IsThrown(Serialize(request.format, request.data))
    THEN [to |-> to, threw |-> Serialize(request.format, request.data).threw]
    ELSE Success(to, Serialize(request.format, request.data))

\* request.type === 'EXPORT_GRAPH': what sendResponse is called with
ExportResponse(to, request) ==
    IF IsAbsent(request.data) THEN Failure(to, "No graph data available")
    ELSE IF request.format \notin SupportedFormats THEN Failure(to, "Unsupported format")
    ELSE IF IsThrown(Serialize(request.format, request.data))
    THEN Failure(to, Serialize(request.format, request.data).threw)
    ELSE Success(to, Serialize(request.format, request.data))

\* a GET_GRAPH that reports an empty cached graph as missing
GetGraphResponseNonEmpty(to) ==
    IF IsNull(graphCache) \/ graphCache = EmptyGraph
    THEN Failure(to, "No graph data available")
    ELSE Success(to, graphCache)

\* request.type === 'GET_GRAPH': what sendResponse is called with
GetGraphResponse(to) ==
    IF IsNull(graphCache) THEN Failure(to, "No graph data available")
    ELSE Success(to, graphCache)

\* a handler that answers at once: it leaves the cache and the runs alone
Answer(response) ==
    /\ responses' = Append(responses, response)
    /\ UNCHANGED <<graphCache, runs, inflight, fnvars>>

(* The messages and answers the listener is run with.                       *)

MaxListenerMessages == 3

ListenerBounds == {Box(Num(10), Num(15), Num(5), Num(0)), Box(Num(5), Num(0), Num(5), Num(0))}

ListenerFetchOutcomes == {HttpOk, NetworkError}

ListenerJsonOutcomes ==
    {JsonBody([elements |-> <<>>]),
     JsonBody([elements |-> <<Node(1, 0, 0), Node(2, 0, 3),
                             Way(100, <<1, 2>>, [highway |-> "residential",
                                                  name |-> "Main St"])>>])}

\* a graph a caller holds
CallerGraph ==
    convertToGraph([elements |-> <<Node(2, 0, 3), Node(3, 4, 0),
                                  [type |-> "way", id |-> 104, nodes |-> <<3, 2>>]>>])

ExportRequests ==
    {[type |-> "EXPORT_GRAPH", format |-> f, data |-> d] :
        f \in SupportedFormats \cup {"xml"}, d \in {NoData, NotAGraph, CallerGraph}}

ListenerFetchOsmData == handled < MaxListenerMessages /\ FetchOsmDataFrom(ListenerBounds)

ListenerFetchSettles == FetchSettlesWith(ListenerFetchOutcomes)

ListenerJsonSettles == JsonSettlesWith(ListenerJsonOutcomes)

OnGetGraph ==
    /\ handled < MaxListenerMessages
    /\ Receive([type |-> "GET_GRAPH"])
    /\ Answer(GetGraphResponse(handled + 1))

OnExportGraph ==
    \E request \in ExportRequests :
        /\ handled < MaxListenerMessages
        /\ Receive(request)
        /\ Answer(ExportResponse(handled + 1, request))

\* any other request.type
OnUnknownType ==
    /\ handled < MaxListenerMessages
    /\ Receive([type |-> "PING"])
    /\ Answer(Failure(handled + 1, "Unknown request type"))

NextListener ==
    \/ ListenerFetchOsmData
    \/ ListenerFetchSettles
    \/ ListenerJsonSettles
    \/ OnGetGraph
    \/ OnExportGraph
    \/ OnUnknownType

SpecListener == Init /\ [][NextListener]_vars

----------------------------------------------------------------------------
(* Claims about validateBounds, checked under SpecValidate.                 *)

Fields(b) == <<b.north, b.south, b.east, b.west>>

\* The six rules as the specification states them, each on its own.
RuleViolated(b, k) ==
    CASE k = 1 -> b.kind # "object"
      [] k = 2 -> \E i \in 1..4 : ~IsNumberType(Fields(b)[i]) \/ Fields(b)[i].t = "nan"
      [] k = 3 -> ~NumGt(b.north, b.south)
      [] k = 4 -> \E x \in {b.north, b.south} :
                     ~(NumLe(Num(-LatLimit), x) /\ NumLe(x, Num(LatLimit)))
      [] k = 5 -> \E x \in {b.east, b.west} :
                     ~(NumLe(Num(-LonLimit), x) /\ NumLe(x, Num(LonLimit)))
      [] k = 6 -> ~NumGt(b.east, b.west)

ViolatedRules(b) == {k \in 1..6 : RuleViolated(b, k)}

MinOf(S) == CHOOSE m \in S : \A k \in S : m <= k

\* the first field, in the order north, south, east, west, that is no valid number
FirstBadFieldName(b) ==
    FieldNames[MinOf({i \in 1..4 : ~IsNumberType(Fields(b)[i]) \/ Fields(b)[i].t = "nan"})]

RuleMessage(b, k) ==
    CASE k = 1 -> "Bounds must be an object"
      [] k = 2 -> FirstBadFieldName(b) \o " must be a valid number"
      [] k = 3 -> "North must be greater than south"
      [] k = 4 -> "Latitude must be between -90 and 90"
      [] k = 5 -> "Longitude must be between -180 and 180"
      [] k = 6 -> "East must be greater than west"

\* C1: validateBounds raises the error of the first violated rule in the order
\* shape, per-field number check (north, south, east, west), north > south,
\* latitude range, longitude range, east > west, evaluates no rule after it,
\* and returns without error exactly when no rule is violated.
C1_FirstViolatedRuleWins ==
    output # Pending =>
        IF ViolatedRules(input) = {}
        THEN output.error = NoError
        ELSE /\ output.error = RuleMessage(input, MinOf(ViolatedRules(input)))
             /\ output.rules = MinOf(ViolatedRules(input))

\* a box violating both north > south and the latitude range reports north > south
C1_Witness ==
    /\ output # Pending
    /\ {3, 4} \subseteq ViolatedRules(input)
    /\ output.error = "North must be greater than south"
    /\ output.rules = 3

NotFinite(b) == {i \in 1..4 : ~IsFinite(Fields(b)[i])}

NotValidNumber(b) == {i \in 1..4 : Fields(b)[i].t \in {"nan", "string", "undefined"}}

\* C2 as stated: every box with a field that is no finite number (NaN, +-Infinity,
\* a non-number, missing) is rejected at the per-field check with
\* '<field> must be a valid number' naming such a field.
C2_NonFiniteRejectedPerField ==
    (output # Pending /\ input.kind = "object" /\ NotFinite(input) # {}) =>
        /\ output.rules = 2
        /\ \E i \in NotFinite(input) :
               output.error = FieldNames[i] \o " must be a valid number"

\* C2, amended: a field that is NaN, a non-number or missing is rejected at the
\* per-field check with '<field> must be a valid number' naming the first such
\* field; a box whose fields are all numbers, one of them infinite, passes that
\* check and is rejected by the north > south rule or by a range rule; so every
\* accepted box has four finite fields.
C2_AcceptedBoxesAreFinite ==
    (output # Pending /\ input.kind = "object") =>
        /\ NotValidNumber(input) # {} =>
               /\ output.rules = 2
               /\ output.error =
                      FieldNames[MinOf(NotValidNumber(input))] \o " must be a valid number"
        /\ (NotValidNumber(input) = {} /\ NotFinite(input) # {}) =>
               output.error \in {"North must be greater than south",
                                 "Latitude must be between -90 and 90",
                                 "Longitude must be between -180 and 180"}
        /\ output.error = NoError => NotFinite(input) = {}

\* an infinite field got past the per-field check and a range rule rejected the box
C2_Witness ==
    /\ output # Pending
    /\ input.kind = "object"
    /\ input.east = PosInf
    /\ NotFinite(input) = {3}
    /\ output.rules = 5
    /\ output.error = "Longitude must be between -180 and 180"

----------------------------------------------------------------------------
(* Claims about splitBounds, checked under SpecSplit.                       *)

TileSet == {output.tiles[i] : i \in 1..Len(output.tiles)}

\* the closed unit cell with south-west corner (y, x) lies inside tile t
CellInTile(y, x, t) ==
    /\ t.south.v <= y /\ y + 1 <= t.north.v
    /\ t.west.v <= x /\ x + 1 <= t.east.v

\* C3: the tiles cover the box: the extreme tile edges reach the box's edges,
\* and every point of the box (every unit cell of it) lies inside some tile.
C3_TilesCoverBox ==
    output # Pending =>
        LET b == input.bounds
        IN  /\ TileSet # {}
            /\ \E t \in TileSet : t.south.v <= b.south.v
            /\ \E t \in TileSet : t.north.v >= b.north.v
            /\ \E t \in TileSet : t.west.v <= b.west.v
            /\ \E t \in TileSet : t.east.v >= b.east.v
            /\ \A y \in b.south.v..(b.north.v - 1) : \A x \in b.west.v..(b.east.v - 1) :
                   \E t \in TileSet : CellInTile(y, x, t)

\* a box split into several rows and columns, all of it covered
C3_Witness ==
    /\ output # Pending
    /\ Len(output.tiles) >= 4
    /\ input.bounds.north.v - input.bounds.south.v > input.maxDeg
    /\ input.bounds.east.v - input.bounds.west.v > input.maxDeg
    /\ \E t \in TileSet : t.north.v > input.bounds.north.v

\* C4: every tile is a valid bounding box: validateBounds accepts it (north > south,
\* east > west, latitudes within +-90 and longitudes within +-180).
C4_EveryTileValid ==
    output # Pending =>
        \A t \in TileSet :
            /\ validateBounds(t).error = NoError
            /\ t.north.v > t.south.v /\ t.east.v > t.west.v
            /\ -LatLimit <= t.south.v /\ t.north.v <= LatLimit
            /\ -LonLimit <= t.west.v /\ t.east.v <= LonLimit

\* a box touching a pole and the 180 meridian, whose tiles were clamped
C4_Witness ==
    /\ output # Pending
    /\ input.bounds.north.v = LatLimit
    /\ input.bounds.east.v = LonLimit
    /\ Len(output.tiles) > 1
    /\ \E t \in TileSet : t.north.v = LatLimit /\ t.east.v = LonLimit

CeilDiv(a, b) == (a + b - 1) \div b

LatSpan == input.bounds.north.v - input.bounds.south.v

LonSpan == input.bounds.east.v - input.bounds.west.v

\* the numbers of loop values a span allows when the loop variable is off by
\* at most one unit
LoopCounts(span, maxDeg) == Max(1, CeilDiv(span - 1, maxDeg))..CeilDiv(span + 1, maxDeg)

\* C5 as stated: one tile when both spans are smaller than maxDeg; in general
\* exactly ceil(latSpan / maxDeg) * ceil(lonSpan / maxDeg) tiles, and more than
\* one tile as soon as either span exceeds maxDeg.
C5_TileCount ==
    output # Pending =>
        /\ Len(output.tiles) = CeilDiv(LatSpan, input.maxDeg) * CeilDiv(LonSpan, input.maxDeg)
        /\ (LatSpan < input.maxDeg /\ LonSpan < input.maxDeg) => Len(output.tiles) = 1
        /\ (LatSpan > input.maxDeg \/ LonSpan > input.maxDeg) => Len(output.tiles) > 1

\* C5 amended: one tile when both spans are smaller than maxDeg; in general
\* rows * columns tiles, where each count is ceil(span / maxDeg) when the
\* additions of the loop are exact and otherwise a count that a span within
\* the rounding error of the real one allows; more than one tile once a span
\* exceeds maxDeg by more than the rounding error.
C5_TileCountUpToRounding ==
    output # Pending =>
        /\ (LatSpan < input.maxDeg /\ LonSpan < input.maxDeg) => Len(output.tiles) = 1
        /\ \E rows \in LoopCounts(LatSpan, input.maxDeg) :
               \E cols \in LoopCounts(LonSpan, input.maxDeg) :
                   Len(output.tiles) = rows * cols
        /\ input.rounding = ExactAdditions =>
               Len(output.tiles) = CeilDiv(LatSpan, input.maxDeg) * CeilDiv(LonSpan, input.maxDeg)
        /\ (LatSpan > input.maxDeg + 1 \/ LonSpan > input.maxDeg + 1) => Len(output.tiles) > 1

\* a latitude span of exactly two tile edges whose loop variable was rounded
\* down: a third row of tiles
C5_Witness ==
    /\ output # Pending
    /\ LatSpan = 2 * input.maxDeg
    /\ LonSpan < input.maxDeg
    /\ input.rounding.lat = -1
    /\ Len(output.tiles) = 3

----------------------------------------------------------------------------
(* Claims about the fetch sequence of the background, checked under Spec.   *)

IsPrefix(p, q) == Len(p) <= Len(q) /\ \A i \in 1..Len(p) : p[i] = q[i]

ValidRuns == {r \in DOMAIN runs : validateBounds(runs[r].bounds).error = NoError}

\* both spans are at most 0.1 degree
WithinThreshold(b) ==
    /\ b.north.v - b.south.v <= TILE_THRESHOLD
    /\ b.east.v - b.west.v <= TILE_THRESHOLD

\* the requests one run is to make: the bounds themselves, or the tiles in order
ExpectedRequests(b) ==
    IF WithinThreshold(b) THEN <<b>> ELSE splitBounds(b, DefaultMaxDeg)

\* the bodies the transport delivered to a run, in order
DeliveredData(run) == [i \in 1..Len(run.delivered) |-> run.delivered[i].data]

AllDelivered(run) == \A i \in 1..Len(run.delivered) : run.delivered[i].kind = "data"

\* C6: a run on valid bounds requests the original bounds, once, when both spans
\* are <= 0.1 degree, and otherwise each tile of splitBounds(bounds) once, in
\* order; when no fetch fails it returns the one body, or the merge of all bodies.
C6_OneRequestPerTile ==
    \A r \in ValidRuns :
        LET run == runs[r]
        IN  /\ IsPrefix(run.requested, ExpectedRequests(run.bounds))
            /\ AllDelivered(run) /\ run.stage # "done" =>
                   Len(run.requested) = Len(run.delivered) + 1
            /\ run.stage = "done" =>
                   /\ run.requested = ExpectedRequests(run.bounds)
                   /\ Len(run.delivered) = Len(run.requested)
                   /\ run.returned =
                          IF WithinThreshold(run.bounds) THEN run.delivered[1].data
                          ELSE mergeOsmData(DeliveredData(run))

\* a run on a box of exactly the threshold finished with one request, and a run on
\* a wider box finished with one request per tile
C6_Witness ==
    \E r1, r2 \in DOMAIN runs :
        /\ runs[r1].stage = "done"
        /\ runs[r1].bounds.north.v - runs[r1].bounds.south.v = TILE_THRESHOLD
        /\ runs[r1].requested = <<runs[r1].bounds>>
        /\ runs[r2].stage = "done"
        /\ runs[r2].tiled
        /\ Len(runs[r2].requested) = 3
        /\ runs[r2].delivered[1] # runs[r2].delivered[2]

\* C7: within one run at most one tile request is outstanding, and the request
\* for tile k+1 is made only after the body of tile k was received and parsed.
C7_OneOutstandingRequest ==
    \A r \in DOMAIN runs :
        /\ Cardinality({q \in inflight : q.run = r}) <= 1
        /\ Len(runs[r].requested) <= Len(runs[r].delivered) + 1
        /\ \A k \in 2..Len(runs[r].requested) : runs[r].delivered[k - 1].kind = "data"

\* a tiled run is awaiting its second tile, the only request it has outstanding
C7_Witness ==
    \E r \in DOMAIN runs :
        /\ runs[r].tiled
        /\ runs[r].stage = "fetch"
        /\ runs[r].idx = 2
        /\ {q \in inflight : q.run = r} = {[run |-> r, idx |-> 2]}

IsFailure(outcome) == outcome.kind \in {"neterror", "http", "badjson"}

\* the step in which the transport fails tile k of tiled run r
TileFails(r) ==
    /\ runs[r].tiled
    /\ Len(runs'[r].delivered) = Len(runs[r].delivered) + 1
    /\ IsFailure(runs'[r].delivered[Len(runs'[r].delivered)])

\* C8: when the fetch of a tile fails, the run requests no later tile, its
\* responder receives {success: false} with that tile's error message, and the
\* earlier tiles' results are discarded: the cache is left as it was and the
\* failed run does nothing afterwards.
C8_FailedTileAbortsRun ==
    [][\A r \in DOMAIN runs :
          /\ TileFails(r) =>
                 /\ runs'[r].stage = "failed"
                 /\ runs'[r].requested = runs[r].requested
                 /\ {q \in inflight' : q.run = r} = {}
                 /\ responses' = Append(responses,
                        [to |-> r, success |-> FALSE,
                         error |-> FailureMessage(
                                       runs'[r].delivered[Len(runs'[r].delivered)])])
                 /\ graphCache' = graphCache
          /\ runs[r].stage = "failed" =>
                 /\ runs'[r] = runs[r]
                 /\ {q \in inflight' : q.run = r} = {}
                 /\ \A i \in 1..Len(responses') :
                        responses'[i].to = r => i <= Len(responses) /\ ~responses'[i].success
      ]_vars

\* the second tile of a tiled run failed after the first had delivered its body
C8_Witness ==
    \E r \in DOMAIN runs :
        /\ runs[r].tiled
        /\ runs[r].stage = "failed"
        /\ Len(runs[r].delivered) = 2
        /\ runs[r].delivered[1].kind = "data"
        /\ runs[r].delivered[2] = HttpStatus(429)
        /\ Len(runs[r].requested) = 2
        /\ \E i \in 1..Len(responses) :
               responses[i] = [to |-> r, success |-> FALSE,
                               error |-> "HTTP error! status: 429"]

----------------------------------------------------------------------------
(* Claims about mergeOsmData, checked under SpecMerge.                      *)

SameIdentity(a, b) == a.type = b.type /\ a.id = b.id

\* the entries of all, from index i on, that no earlier entry shares its identity with
RECURSIVE FirstOccurrences(_, _)
FirstOccurrences(all, i) ==
    IF i > Len(all) THEN <<>>
    ELSE (IF \E j \in 1..(i - 1) : SameIdentity(all[j], all[i]) THEN <<>> ELSE <<all[i]>>)
         \o FirstOccurrences(all, i + 1)

\* the elements lists of the results that have one, concatenated in input order
Concatenated(results) ==
    Concat([i \in 1..Len(results) |->
               IF "elements" \in DOMAIN results[i] THEN results[i].elements ELSE <<>>])

\* C9: mergeOsmData returns the concatenation of the elements lists in input order
\* with only the first occurrence of every (type, id) kept; null results and
\* results without an elements array are skipped without error; no (type, id)
\* occurs twice in the output.
C9_MergeKeepsFirstOccurrence ==
    output # Pending =>
        /\ ~IsThrown(output)
        /\ output.elements = FirstOccurrences(Concatenated(input), 1)
        /\ \A i, j \in 1..Len(output.elements) :
               SameIdentity(output.elements[i], output.elements[j]) => i = j

\* a duplicate with other content in a later result was dropped in favour of the
\* first occurrence, and the way with the same id as a node was kept
C9_Witness ==
    /\ output # Pending
    /\ input = <<[elements |-> <<[type |-> "way", id |-> 1], Node(1, 5, 5)>>],
                 [elements |-> <<Node(1, 0, 0), [type |-> "way", id |-> 1]>>]>>
    /\ output.elements = <<[type |-> "way", id |-> 1], Node(1, 5, 5)>>

----------------------------------------------------------------------------
(* Claims about convertToGraph, checked under SpecGraph.                    *)

\* C10: convertToGraph never fails: for null, an object without an elements list, an
\* empty list or a list with malformed entries (null entries, ways without nodes or
\* tags, unresolved references) it returns a Graph with directed = true,
\* multigraph = false, graph = {}, and no nodes and no edges when the input has no
\* usable element.
C10_ConvertNeverFails ==
    output # Pending =>
        /\ ~IsThrown(output)
        /\ output.directed = TRUE
        /\ output.multigraph = FALSE
        /\ output.graph = EmptyObject
        /\ (~HasElements(input) \/ input.elements = <<>>) =>
               (output.nodes = <<>> /\ output.edges = <<>>)

\* the ids of the node elements of the stream
NodeIds(elements) ==
    {elements[i].id : i \in {j \in 1..Len(elements) : TypeOf(elements[j]) = "node"}}

\* the way elements of the stream that have a node list, in stream order
WaysWithNodes(elements) ==
    LET isWay(e) == TypeOf(e) = "way" /\ "nodes" \in DOMAIN e
    IN  SelectSeq(elements, isWay)

\* the consecutive pairs of a way's node list whose two ids are node elements
ResolvedPairs(way, ids) ==
    LET resolved(p) == p[1] \in ids /\ p[2] \in ids
    IN  SelectSeq([i \in 1..(Len(way.nodes) - 1) |-> <<way.nodes[i], way.nodes[i + 1]>>],
                  resolved)

OnewayTag(way) ==
    IF "tags" \in DOMAIN way /\ "oneway" \in DOMAIN way.tags
    THEN way.tags["oneway"] ELSE "absent"

\* the directed pairs the oneway rule asks for: reverse only, forward only, or both
DirectedPairs(pair, oneway) ==
    IF oneway = "-1" THEN <<(<<pair[2], pair[1]>>)>>
    ELSE IF oneway \in {"yes", "true", "1"} THEN <<pair>>
    ELSE <<pair, <<pair[2], pair[1]>>>>

ExpectedEndpoints(elements) ==
    LET ways == WaysWithNodes(elements)
        ofWay(w) ==
            LET pairs == ResolvedPairs(w, NodeIds(elements))
            IN  Concat([k \in 1..Len(pairs) |-> DirectedPairs(pairs[k], OnewayTag(w))])
    IN  Concat([k \in 1..Len(ways) |-> ofWay(ways[k])])

Endpoints(edges) == [k \in 1..Len(edges) |-> <<edges[k].source, edges[k].target>>]

WayElements(elements) ==
    {elements[i] : i \in {j \in 1..Len(elements) : TypeOf(elements[j]) = "way"}}

\* the consecutive pairs of a way's node list; none without a node list
PairsOf(way) ==
    IF "nodes" \in DOMAIN way
    THEN {<<way.nodes[i], way.nodes[i + 1]>> : i \in 1..(Len(way.nodes) - 1)}
    ELSE {}

\* some edge of the way joins the two ids of the pair, in either direction
HasEdgeFor(way, pair, edges) ==
    \E k \in 1..Len(edges) :
        /\ edges[k].wayId = way.id
        /\ <<edges[k].source, edges[k].target>> \in {pair, <<pair[2], pair[1]>>}

\* C12: a pair (nodes[i], nodes[i+1]) of a way has edges exactly when both ids are
\* node elements anywhere in the stream; an unresolved pair raises no error and
\* takes no other pair's edges away; a way without a node list or with fewer
\* than two references has no edge; every edge belongs to a resolved pair.
C12_EdgesIffResolved ==
    (output # Pending /\ HasElements(input)
        /\ \A i \in 1..Len(input.elements) : ~IsNull(input.elements[i])) =>
        /\ ~IsThrown(output)
        /\ \A w \in WayElements(input.elements) :
               /\ \A p \in PairsOf(w) :
                      HasEdgeFor(w, p, output.edges) <=>
                          (p[1] \in NodeIds(input.elements) /\ p[2] \in NodeIds(input.elements))
               /\ ("nodes" \notin DOMAIN w \/ Len(w.nodes) < 2) =>
                      \A k \in 1..Len(output.edges) : output.edges[k].wayId # w.id
        /\ \A k \in 1..Len(output.edges) :
               \E w \in WayElements(input.elements) :
                   /\ w.id = output.edges[k].wayId
                   /\ <<output.edges[k].source, output.edges[k].target>> \in
                          PairsOf(w) \cup {<<p[2], p[1]>> : p \in PairsOf(w)}
                   /\ {output.edges[k].source, output.edges[k].target} \subseteq
                          NodeIds(input.elements)

\* a way whose first two pairs are unresolved and whose third is resolved by
\* node elements that come after it in the stream
C12_Witness ==
    /\ output # Pending
    /\ HasElements(input)
    /\ input.elements = <<Way(102, <<2, 9, 1, 3>>, [oneway |-> "-1"]),
                          Node(3, 4, 0), Node(1, 0, 0), Way(105, <<2>>, [highway |-> "path"])>>
    /\ Endpoints(output.edges) = <<(<<3, 1>>)>>


\* the node elements of the stream, in stream order
NodeElements(elements) ==
    LET isNode(e) == TypeOf(e) = "node"
    IN  SelectSeq(elements, isNode)

\* the first node element of the stream with the given id
FirstNodeWithId(elements, id) ==
    LET ns == NodeElements(elements)
    IN  ns[CHOOSE i \in 1..Len(ns) :
               ns[i].id = id /\ \A j \in 1..(i - 1) : ns[j].id # id]

\* C13: the node ids of the graph are pairwise distinct, the nodes are in the
\* order their ids were first seen, and each node keeps the lat/lon of the first
\* node element with its id whatever node elements with that id follow.
C13_NodesKeepFirstOccurrence ==
    (output # Pending /\ HasElements(input) /\ ~IsThrown(output)) =>
        LET ns == NodeElements(input.elements)
            firsts == SelectSeq([i \in 1..Len(ns) |-> <<i, ns[i]>>],
                                LAMBDA p : \A j \in 1..(p[1] - 1) : ns[j].id # p[2].id)
        IN  /\ \A i, j \in 1..Len(output.nodes) :
                   output.nodes[i].id = output.nodes[j].id => i = j
            /\ [i \in 1..Len(output.nodes) |-> output.nodes[i].id] =
                   [i \in 1..Len(firsts) |-> firsts[i][2].id]
            /\ \A i \in 1..Len(output.nodes) :
                   LET first == FirstNodeWithId(input.elements, output.nodes[i].id)
                   IN  output.nodes[i].lat = first.lat /\ output.nodes[i].lon = first.lon


----------------------------------------------------------------------------
(* Claims about the listener and the graph cache, checked under             *)
(* SpecListener.                                                            *)

RequestOf(response) == requests[response.to]

\* the responses that report a successful build, by position
BuildSuccesses ==
    {k \in 1..Len(responses) :
        RequestOf(responses[k]).type = "FETCH_OSM_DATA" /\ responses[k].success}

MaxOf(S) == CHOOSE m \in S : \A k \in S : k <= m

\* the graph of the last build that succeeded before position k, or Null
LastBuiltBefore(k) ==
    LET earlier == {j \in BuildSuccesses : j < k}
    IN  IF earlier = {} THEN Null ELSE responses[MaxOf(earlier)].data

GetGraphAnswersFromLastBuild ==
    /\ graphCache = LastBuiltBefore(Len(responses) + 1)
    /\ \A k \in 1..Len(responses) :
           RequestOf(responses[k]).type = "GET_GRAPH" =>
               IF LastBuiltBefore(k) = Null
               THEN responses[k] = Failure(responses[k].to, "No graph data available")
               ELSE responses[k] = Success(responses[k].to, LastBuiltBefore(k))

CacheChangesOnlyBySuccessfulBuild ==
    graphCache' # graphCache =>
        /\ ~IsNull(graphCache')
        /\ Len(responses') = Len(responses) + 1
        /\ LET r == responses'[Len(responses')]
           IN  /\ requests[r.to].type = "FETCH_OSM_DATA"
               /\ r = Success(r.to, graphCache')
               /\ runs'[r.to].stage = "done"

\* C14: GET_GRAPH fails with 'No graph data available' exactly when no build has
\* succeeded so far and otherwise returns the graph of the last build that
\* succeeded; the cache changes only in the step that completes a successful
\* build, which replaces it, and never goes back to empty.
C14_CacheHoldsLastSuccessfulBuild ==
    /\ []GetGraphAnswersFromLastBuild
    /\ [][CacheChangesOnlyBySuccessfulBuild]_vars

\* a build with elements, then a build with zero elements, then a GET_GRAPH that
\* returns the empty graph as a success
C14_Witness ==
    /\ Len(responses) = 3
    /\ BuildSuccesses = {1, 2}
    /\ responses[1].data # EmptyGraph
    /\ responses[2].data = EmptyGraph
    /\ RequestOf(responses[3]).type = "GET_GRAPH"
    /\ responses[3] = Success(responses[3].to, EmptyGraph)


\* the responses to EXPORT_GRAPH requests, by position
ExportAnswers ==
    {k \in 1..Len(responses) : RequestOf(responses[k]).type = "EXPORT_GRAPH"}

\* C15: once a build has succeeded, every EXPORT_GRAPH request with a supported
\* format succeeds with the serialization of the cached graph, whether or not
\* the request carries a graph.
C15_ExportReadsCache ==
    \A k \in ExportAnswers :
        (RequestOf(responses[k]).format \in SupportedFormats /\ ~IsNull(LastBuiltBefore(k))) =>
            responses[k] = Success(responses[k].to,
                                   Serialize(RequestOf(responses[k]).format, LastBuiltBefore(k)))

\* the runs that have started and neither resolved nor rejected
RunsInProgress == {r \in DOMAIN runs : runs[r].stage \in {"fetch", "json"}}

\* C16: builds are sequential: never two runs in progress, never outstanding
\* requests of two runs, and the successful builds reach the cache in the order
\* they were requested.
C16_BuildsSequential ==
    /\ Cardinality(RunsInProgress) <= 1
    /\ \A p, q \in inflight : p.run = q.run
    /\ \A j, k \in BuildSuccesses : j < k => responses[j].to < responses[k].to

AnswersTo(m) == {k \in 1..Len(responses) : responses[k].to = m}

WellFormedResponse(r) ==
    \/ DOMAIN r = {"to", "success", "data"} /\ r.success = TRUE /\ ~IsThrown(r.data)
    \/ DOMAIN r = {"to", "success", "error"} /\ r.success = FALSE /\ r.error \in STRING

\* C17: every message is answered at most once and, once its handling is over,
\* exactly once: at once for GET_GRAPH, EXPORT_GRAPH and unknown types, and for
\* FETCH_OSM_DATA when its run has resolved or rejected and not before; every
\* answer is {success: true, data} or {success: false, error: message}, also
\* for a validation failure, a transport failure and a serializer exception.
C17_OneStructuredResponse ==
    /\ Len(requests) = handled
    /\ \A k \in 1..Len(responses) :
           responses[k].to \in 1..handled /\ WellFormedResponse(responses[k])
    /\ \A m \in 1..handled :
           /\ Cardinality(AnswersTo(m)) <= 1
           /\ requests[m].type # "FETCH_OSM_DATA" => Cardinality(AnswersTo(m)) = 1
           /\ requests[m].type = "FETCH_OSM_DATA" =>
                  /\ m \in DOMAIN runs
                  /\ AnswersTo(m) # {} <=> runs[m].stage \in {"done", "failed"}
                  /\ AnswersTo(m) # {} => \A q \in inflight : q.run # m

\* an invalid box, a transport failure, a serializer exception: three failures
C17_Witness ==
    /\ Len(responses) = 3
    /\ responses[1] = Failure(1, "North must be greater than south")
    /\ responses[2] = Failure(2, "Failed to fetch")
    /\ responses[3] = Failure(3, TypeErrorOnUndefined("forEach"))

\* C18 as stated: every EXPORT_GRAPH request with an unsupported format is
\* answered 'Unsupported format'.
C18_UnsupportedFormatAlways ==
    \A k \in ExportAnswers :
        RequestOf(responses[k]).format \notin SupportedFormats =>
            responses[k] = Failure(responses[k].to, "Unsupported format")

\* C18 amended: an EXPORT_GRAPH request that carries data and has an unsupported
\* format is answered 'Unsupported format'; one that carries no data is answered
\* 'No graph data available' whatever its format; neither gets a serializer's text.
C18_UnsupportedFormatWithData ==
    \A k \in ExportAnswers :
        LET request == RequestOf(responses[k])
        IN  /\ (request.format \notin SupportedFormats /\ ~IsAbsent(request.data)) =>
                   responses[k] = Failure(responses[k].to, "Unsupported format")
            /\ IsAbsent(request.data) =>
                   responses[k] = Failure(responses[k].to, "No graph data available")

\* an unsupported format with a graph, and the same format without one
C18_Witness ==
    /\ Len(responses) = 2
    /\ requests[1] = [type |-> "EXPORT_GRAPH", format |-> "xml", data |-> CallerGraph]
    /\ requests[2] = [type |-> "EXPORT_GRAPH", format |-> "xml", data |-> NoData]
    /\ responses[1] = Failure(1, "Unsupported format")
    /\ responses[2] = Failure(2, "No graph data available")



----------------------------------------------------------------------------
(* Reading CSV text back.  RFC 4180 separates fields by commas and records  *)
(* by line breaks, lets a field stand in double quotes, where a doubled     *)
(* quote is one quote and commas and line breaks are data, and keeps the    *)
(* last record with or without a line break after it.  Readers take a line  *)
(* feed as well as CR LF for a line break.  A carriage return on its own in *)
(* a bare field is outside the grammar of the RFC (TEXTDATA has no %x0D):   *)
(* a reader either keeps it as data or ends the record there.               *)

LoneCarriageReturn == {"data", "break"}

\* the length of the line break at text[i], 0 where there is none
LineBreakAt(text, i, cr) ==
    IF text[i] = "\n" THEN 1
    ELSE IF text[i] = "\r" /\ i < Len(text) /\ text[i + 1] = "\n" THEN 2
    ELSE IF text[i] = "\r" /\ cr = "break" THEN 1
    ELSE 0

\* the reader before the first character
ReaderStart == [mode |-> "start", field |-> <<>>, record |-> <<>>, records |-> <<>>]

\* the reader after the character c, brk being the line break that starts at c
ReadChar(r, c, brk) ==
    IF r.mode = "quoted"
    THEN IF c = "\"" THEN [r EXCEPT !.mode = "quote"]
         ELSE [r EXCEPT !.field = @ \o <<c>>]
    ELSE IF c = "\"" /\ r.mode = "start" THEN [r EXCEPT !.mode = "quoted"]
    ELSE IF c = "\"" /\ r.mode = "quote"
    THEN [r EXCEPT !.mode = "quoted", !.field = @ \o <<c>>]
    ELSE IF c = ","
    THEN [r EXCEPT !.mode = "start", !.field = <<>>, !.record = @ \o <<r.field>>]
    ELSE IF brk > 0
    THEN [mode |-> "start", field |-> <<>>, record |-> <<>>,
          records |-> r.records \o <<r.record \o <<r.field>>>>]
    ELSE [r EXCEPT !.mode = "bare", !.field = @ \o <<c>>]

\* the step over text[i]: a line break outside quotes is read as a whole
ReadWidth(r, text, i, cr) ==
    IF r.mode # "quoted" /\ text[i] # "\"" /\ text[i] # "," /\ LineBreakAt(text, i, cr) = 2
    THEN 2 ELSE 1

\* the records at the end of the text
ReadEnd(r) ==
    IF r.mode = "start" /\ r.record = <<>> THEN r.records
    ELSE r.records \o <<r.record \o <<r.field>>>>

RECURSIVE ParseFrom(_, _, _, _)
ParseFrom(text, i, r, cr) ==
    IF i > Len(text) THEN ReadEnd(r)
    ELSE ParseFrom(text, i + ReadWidth(r, text, i, cr),
                   ReadChar(r, text[i], LineBreakAt(text, i, cr)), cr)

ParseCsv(text, cr) == ParseFrom(text, 1, ReaderStart, cr)

CsvHeaderFields ==
    <<
      <<"s", "o", "u", "r", "c", "e">>,
      <<"t", "a", "r", "g", "e", "t">>,
      <<"w", "e", "i", "g", "h", "t">>,
      <<"h", "i", "g", "h", "w", "a", "y">>,
      <<"n", "a", "m", "e">>,
      <<"w", "a", "y", "I", "d">>
    >>

CsvFields(edge) ==
    <<StringOf(edge.source), StringOf(edge.target), StringOf(edge.weight),
      StringOf(edge.highway), StringOf(edge.name), StringOf(edge.wayId)>>

CsvRecords(graph) ==
    <<CsvHeaderFields>> \o [k \in 1..Len(graph.edges) |-> CsvFields(graph.edges[k])]

HasCarriageReturn(graph) ==
    \E k \in 1..Len(graph.edges) :
        Includes(graph.edges[k].highway.v, "\r") \/ Includes(graph.edges[k].name.v, "\r")

\* C19: however a reader of RFC 4180 takes a lone carriage return, reading
\* the output of convertToCSV back gives the header record and then one
\* record of six fields per edge, in graph order, the fields being the string
\* forms of source, target, weight, highway, name and wayId; and the empty
\* graph gives the header alone, with no line break after it.
C19_CsvRoundTrip ==
    output # Pending =>
        /\ \A cr \in LoneCarriageReturn : ParseCsv(output.text, cr) = CsvRecords(input)
        /\ input.edges = <<>> => output.text = Join(CsvHeaderFields, <<",">>)

\* The round trip does hold for the graphs without a carriage return in a
\* field, commas, quotes and line feeds in the names included.
C19_RoundTripWithoutCarriageReturn ==
    (output # Pending /\ ~HasCarriageReturn(input)) =>
        /\ \A cr \in LoneCarriageReturn : ParseCsv(output.text, cr) = CsvRecords(input)
        /\ input.edges = <<>> => output.text = Join(CsvHeaderFields, <<",">>)


----------------------------------------------------------------------------
(* Reading GraphML text back.  A start tag is found by its opening markup;  *)
(* its attributes are read one after the other, each value running up to    *)
(* the next double quote, and the entities of a value are decoded in one    *)
(* pass, as an XML reader does.                                             *)

\* the positions where pat starts in text
Starts(text, pat) ==
    {i \in 1..(Len(text) - Len(pat) + 1) :
        text[i] = pat[1] /\ SubSeq(text, i, i + Len(pat) - 1) = pat}

\* the k-th position of a set of positions
Nth(positions, k) ==
    CHOOSE p \in positions : Cardinality({q \in positions : q < p}) = k - 1

Malformed == <<"malformed">>

\* the values of the attributes named names, in this order, of the start tag
\* whose name ends before text[p]
RECURSIVE AttributesFrom(_, _, _)
AttributesFrom(text, p, names) ==
    IF names = <<>> THEN (IF text[p] = ">" THEN <<>> ELSE <<Malformed>>)
    ELSE LET opening == <<" ">> \o names[1] \o <<"=", "\"">>
             from == p + Len(opening)
         IN  IF SubSeq(text, p, from - 1) # opening THEN <<Malformed>>
             ELSE LET close == CHOOSE q \in from..Len(text) :
                                   text[q] = "\"" /\ \A r \in from..(q - 1) : text[r] # "\""
                  IN  <<SubSeq(text, from, close - 1)>>
                          \o AttributesFrom(text, close + 1, Tail(names))

XmlEntities ==
    <<[entity |-> <<"&", "a", "m", "p", ";">>, char |-> "&"],
      [entity |-> <<"&", "l", "t", ";">>, char |-> "<"],
      [entity |-> <<"&", "g", "t", ";">>, char |-> ">"],
      [entity |-> <<"&", "q", "u", "o", "t", ";">>, char |-> "\""],
      [entity |-> <<"&", "a", "p", "o", "s", ";">>, char |-> "'"]>>

StartsWith(chars, prefix) ==
    Len(chars) >= Len(prefix) /\ SubSeq(chars, 1, Len(prefix)) = prefix

RECURSIVE UnescapeXml(_)
UnescapeXml(chars) ==
    IF chars = <<>> THEN <<>>
    ELSE IF \E e \in 1..Len(XmlEntities) : StartsWith(chars, XmlEntities[e].entity)
    THEN LET e == CHOOSE e \in 1..Len(XmlEntities) : StartsWith(chars, XmlEntities[e].entity)
         IN  <<XmlEntities[e].char>>
                 \o UnescapeXml(SubSeq(chars, Len(XmlEntities[e].entity) + 1, Len(chars)))
    ELSE <<Head(chars)>> \o UnescapeXml(Tail(chars))

Unescaped(values) == [k \in 1..Len(values) |-> UnescapeXml(values[k])]

GraphTag ==
    <<"<", "g", "r", "a", "p", "h", " ", "i", "d", "=", "\"", "G", "\"",
      " ", "e", "d", "g", "e", "d", "e", "f", "a", "u", "l", "t", "=",
      "\"", "d", "i", "r", "e", "c", "t", "e", "d", "\"", ">">>

NodeTag == <<"<", "n", "o", "d", "e">>

EdgeTag == <<"<", "e", "d", "g", "e">>

IdAttribute == <<"i", "d">>

SourceAttribute == <<"s", "o", "u", "r", "c", "e">>

TargetAttribute == <<"t", "a", "r", "g", "e", "t">>

NodeTags(text) == Starts(text, NodeTag \o <<" ">>)

EdgeTags(text) == Starts(text, EdgeTag \o <<" ">>)

\* the attribute values of the k-th node and the k-th edge start tag
NodeAttributes(text, k) ==
    AttributesFrom(text, Nth(NodeTags(text), k) + Len(NodeTag), <<IdAttribute>>)

EdgeAttributes(text, k) ==
    AttributesFrom(text, Nth(EdgeTags(text), k) + Len(EdgeTag),
                   <<IdAttribute, SourceAttribute, TargetAttribute>>)

EntityOf(c) ==
    IF \E e \in 1..Len(XmlEntities) : XmlEntities[e].char = c
    THEN XmlEntities[CHOOSE e \in 1..Len(XmlEntities) : XmlEntities[e].char = c].entity
    ELSE <<c>>

\* every character of the text replaced once, at the same time
EachReplacedOnce(text) == Concat([k \in 1..Len(text) |-> EntityOf(text[k])])

EntityStartsAt(text, i) ==
    \E e \in 1..Len(XmlEntities) :
        /\ i + Len(XmlEntities[e].entity) - 1 <= Len(text)
        /\ SubSeq(text, i, i + Len(XmlEntities[e].entity) - 1) = XmlEntities[e].entity

\* C21: escapeXml gives the string form of its argument with every &, <, >,
\* " and ' replaced by its entity exactly once (the & of an entity is not
\* escaped again); the result holds no <, >, " or ' and no & that does not
\* start one of the five entities; decoding the entities gives back the
\* string form of the argument; a number comes out as its decimal string.
C21_EscapeXmlOnce ==
    output # Pending =>
        LET str == StringOf(input)
            out == output.text
        IN  /\ out = EachReplacedOnce(str)
            /\ \A i \in 1..Len(out) :
                    /\ out[i] \notin {"<", ">", "\"", "'"}
                    /\ out[i] = "&" => EntityStartsAt(out, i)
            /\ UnescapeXml(out) = str
            /\ input.t = "num" => out = str

\* text that already holds an entity, next to a character to escape
C21_Witness ==
    /\ output # Pending
    /\ input = Str(<<"&", "l", "t", ";", "<", "&", "a", "m", "p", ";">>)
    /\ Len(output.text) = 21


----------------------------------------------------------------------------
(* Reading TikZ text back: a command is found by its opening, a node name   *)
(* runs up to the closing parenthesis, a coordinate up to the comma or the  *)
(* parenthesis.                                                             *)

DrawCommand ==
    <<"\\", "d", "r", "a", "w", "[", "e", "d", "g", "e", "]">>

NodeCommand ==
    <<"\\", "n", "o", "d", "e", "[", "v", "e", "r", "t", "e", "x", "]">>

\* the text from text[p] up to the next character c
UpTo(text, p, c) ==
    SubSeq(text, p, (CHOOSE q \in p..Len(text) :
                        text[q] = c /\ \A r \in p..(q - 1) : text[r] # c) - 1)

\* the two node names of the k-th draw command: \draw[edge] (from) -- (to);
DrawnFrom(text, k) == UpTo(text, Nth(Starts(text, DrawCommand), k) + Len(DrawCommand) + 2, ")")

DrawnTo(text, k) ==
    UpTo(text, Nth(Starts(text, DrawCommand), k) + Len(DrawCommand) + 2
                   + Len(DrawnFrom(text, k)) + 6, ")")

\* the name convertToTikZ gives the node with this id: n and its index from 0
NodeName(graph, id) ==
    <<"n">> \o NatString((CHOOSE k \in 1..Len(graph.nodes) : graph.nodes[k].id = id) - 1)

\* the edges whose source and target are both ids of graph nodes
Connected(graph) ==
    {k \in 1..Len(graph.edges) :
        /\ \E j \in 1..Len(graph.nodes) : graph.nodes[j].id = graph.edges[k].source
        /\ \E j \in 1..Len(graph.nodes) : graph.nodes[j].id = graph.edges[k].target}

UnorderedPair(edge) == {edge.source, edge.target}

\* the first edge, in graph order, of every unordered pair
FirstOfPair(graph) ==
    {k \in Connected(graph) :
        \A j \in Connected(graph) :
            j < k => UnorderedPair(graph.edges[j]) # UnorderedPair(graph.edges[k])}

\* C22: for a graph with at least one node, convertToTikZ emits one draw
\* command per distinct unordered pair {source, target} among the edges whose
\* endpoints are both node ids; the commands follow graph order, each in the
\* orientation of the first edge of its pair; edges with a missing endpoint
\* add nothing and take nothing away.
C22_DrawOncePerPair ==
    (output # Pending /\ Len(input.nodes) > 0) =>
        LET text == output.text
            firsts == FirstOfPair(input)
        IN  /\ Cardinality(Starts(text, DrawCommand))
                   = Cardinality({UnorderedPair(input.edges[k]) : k \in Connected(input)})
            /\ Cardinality(Starts(text, DrawCommand)) = Cardinality(firsts)
            /\ \A i \in 1..Cardinality(firsts) :
                    /\ DrawnFrom(text, i) = NodeName(input, input.edges[Nth(firsts, i)].source)
                    /\ DrawnTo(text, i) = NodeName(input, input.edges[Nth(firsts, i)].target)

\* an edge to a missing node, then 2 -> 1, then its reverse 1 -> 2: one
\* command, drawn from n1 to n0
C22_Witness ==
    /\ output # Pending
    /\ Len(input.nodes) = 3
    /\ Len(input.edges) = 3
    /\ UnorderedPair(input.edges[1]) = {Num(1), Num(9)}
    /\ input.edges[2].source = Num(2) /\ input.edges[2].target = Num(1)
    /\ input.edges[3].source = Num(1) /\ input.edges[3].target = Num(2)
    /\ Cardinality(Starts(output.text, DrawCommand)) = 1
    /\ DrawnFrom(output.text, 1) = <<"n", "1">>


DigitValue(c) == (CHOOSE d \in 1..10 : Digits[d] = c) - 1

\* the number written by the digits of a text, a decimal point left out:
\* "0.1500" is 1500 ten-thousandths
RECURSIVE DigitsValue(_, _)
DigitsValue(text, sofar) ==
    IF text = <<>> THEN sofar
    ELSE IF Head(text) = "." THEN DigitsValue(Tail(text), sofar)
    ELSE DigitsValue(Tail(text), 10 * sofar + DigitValue(Head(text)))

\* the coordinates of the k-th node command: \node[vertex] (name) at (x,y) {};
PlacedX(text, k) ==
    LET name == UpTo(text, Nth(Starts(text, NodeCommand), k) + Len(NodeCommand) + 2, ")")
    IN  UpTo(text, Nth(Starts(text, NodeCommand), k) + Len(NodeCommand) + 2 + Len(name) + 6, ",")

PlacedY(text, k) ==
    LET name == UpTo(text, Nth(Starts(text, NodeCommand), k) + Len(NodeCommand) + 2, ")")
    IN  UpTo(text, Nth(Starts(text, NodeCommand), k) + Len(NodeCommand) + 2 + Len(name) + 6
                       + Len(PlacedX(text, k)) + 1, ")")

Span(nodes, field) == GreatestOf(nodes, field) - LeastOf(nodes, field)

LargerSpan(nodes) == Max(Span(nodes, "lat"), Span(nodes, "lon"))

\* (value - least) * 10 / span, in ten-thousandths, rounded to the nearest
ToTen(offset, span) == (2 * 100000 * offset + span) \div (2 * span)

TenCentimetres == 100000

\* the placement of C23 for the nodes of the input
PlacedByLargerSpan ==
    LET text == output.text
        nodes == input.nodes
    IN  /\ Cardinality(Starts(text, NodeCommand)) = Len(nodes)
        /\ \A k \in 1..Len(nodes) :
                /\ DigitsValue(PlacedX(text, k), 0)
                       = ToTen(nodes[k].lon.v - LeastOf(nodes, "lon"), LargerSpan(nodes))
                /\ DigitsValue(PlacedY(text, k), 0)
                       = ToTen(nodes[k].lat.v - LeastOf(nodes, "lat"), LargerSpan(nodes))
                /\ DigitsValue(PlacedX(text, k), 0) \in 0..TenCentimetres
                /\ DigitsValue(PlacedY(text, k), 0) \in 0..TenCentimetres
        /\ \E k \in 1..Len(nodes) :
                \/ DigitsValue(PlacedX(text, k), 0) = TenCentimetres
                \/ DigitsValue(PlacedY(text, k), 0) = TenCentimetres

EmptyPlaceholder ==
    /\ output.text = TikZEmptyDocument
    /\ Starts(output.text, NodeCommand) = {}
    /\ Starts(output.text, DrawCommand) = {}

\* C23: for a graph whose nodes are not all at one position, every node is
\* placed at x = (lon - minLon) * s, y = (lat - minLat) * s with
\* s = 10 / max(latitude span, longitude span); every coordinate is within
\* [0, 10] and some coordinate is exactly 10, also when all nodes share one
\* latitude or one longitude.  A graph without nodes gives the placeholder
\* document with no node and no draw command.
C23_LargerSpanMapsToTen ==
    output # Pending =>
        /\ (Len(input.nodes) > 0 /\ LargerSpan(input.nodes) > 0) => PlacedByLargerSpan
        /\ Len(input.nodes) = 0 => EmptyPlaceholder

\* The placement does hold where neither span is zero, and where the one
\* span that is not zero is at least one degree; the placeholder holds.
C23_PlacementUnlessOneSpanZero ==
    output # Pending =>
        /\ (/\ Len(input.nodes) > 0
            /\ \/ Span(input.nodes, "lat") > 0 /\ Span(input.nodes, "lon") > 0
               \/ LargerSpan(input.nodes) >= OneDegree) => PlacedByLargerSpan
        /\ Len(input.nodes) = 0 => EmptyPlaceholder


\* where an edge comes from: the way (its place among the ways with a node
\* list), the segment (its place in the way's node list) and the direction
Emission(w, way, seg, from, to) ==
    [way |-> w, wayId |-> way.id, segment |-> seg, source |-> from, target |-> to,
     highway |-> IF "tags" \in DOMAIN way /\ "highway" \in DOMAIN way.tags
                 THEN way.tags["highway"] ELSE "",
     name |-> IF "tags" \in DOMAIN way /\ "name" \in DOMAIN way.tags
              THEN way.tags["name"] ELSE ""]

\* the emissions of one segment: forward, then reverse, as the oneway tag allows
SegmentEmissions(w, way, seg, ids) ==
    IF way.nodes[seg] \in ids /\ way.nodes[seg + 1] \in ids
    THEN (IF OnewayTag(way) # "-1"
          THEN <<Emission(w, way, seg, way.nodes[seg], way.nodes[seg + 1])>> ELSE <<>>)
         \o (IF OnewayTag(way) \notin {"yes", "true", "1"}
             THEN <<Emission(w, way, seg, way.nodes[seg + 1], way.nodes[seg])>> ELSE <<>>)
    ELSE <<>>

\* all emissions: by way in stream order, within a way by segment
Emissions(elements) ==
    LET ways == WaysWithNodes(elements)
    IN  Concat([w \in 1..Len(ways) |->
                   Concat([seg \in 1..(Len(ways[w].nodes) - 1) |->
                              SegmentEmissions(w, ways[w], seg, NodeIds(elements))])])

\* C24: the edges of a built graph are the emissions of the ways in element
\* order, within a way by segment, within a segment forward then reverse;
\* each edge has the way's id and the way's highway and name tags, the empty
\* string for a tag or a tag map that is absent; the edges of one segment
\* agree on wayId, weight, highway and name.
C24_EdgeOrderAndAttributes ==
    (output # Pending /\ ~IsThrown(output) /\ HasElements(input)) =>
        LET origin == Emissions(input.elements)
            edges == output.edges
        IN  /\ Len(edges) = Len(origin)
            /\ \A k \in 1..Len(edges) :
                    /\ edges[k].source = origin[k].source
                    /\ edges[k].target = origin[k].target
                    /\ edges[k].wayId = origin[k].wayId
                    /\ edges[k].highway = origin[k].highway
                    /\ edges[k].name = origin[k].name
            /\ \A j, k \in 1..Len(edges) :
                    (origin[j].way = origin[k].way /\ origin[j].segment = origin[k].segment) =>
                        /\ edges[j].wayId = edges[k].wayId
                        /\ edges[j].weight = edges[k].weight
                        /\ edges[j].highway = edges[k].highway
                        /\ edges[j].name = edges[k].name

\* a one-way way with a highway tag and no name, then a two-way way with both
\* tags: 1->2 of the first way, then 1->2 and 2->1 of the second
C24_Witness ==
    /\ output # Pending
    /\ HasElements(input)
    /\ input.elements = <<Node(1, 0, 0), Node(2, 0, 3),
                          Way(101, <<1, 2, 3>>, [highway |-> "primary", oneway |-> "yes"]),
                          Way(100, <<1, 2>>, [highway |-> "residential", name |-> "Main St"])>>
    /\ Endpoints(output.edges) = <<(<<1, 2>>), <<1, 2>>, <<2, 1>>>>
    /\ output.edges[1].name = "" /\ output.edges[3].name = "Main St"
    /\ output.edges[2].weight = output.edges[3].weight


SplitBoundsReturned == "returned" \in DOMAIN output

\* C25: splitBounds returns, for every valid box and every maxDeg, positive,
\* zero or negative.
C25_SplitBoundsTerminates == <>SplitBoundsReturned

\* It does return for every positive maxDeg, with as many tiles as the
\* exact loops of splitBounds give.
C25_ReturnsForPositiveMaxDeg ==
    (input.maxDeg > 0) =>
        <>(SplitBoundsReturned /\ output.returned = Len(splitBounds(input.bounds, input.maxDeg)))

\* With maxDeg zero or negative the call never returns.
C25_NeverReturnsOtherwise == [](input.maxDeg <= 0 => ~SplitBoundsReturned)


\* C26: in every graph convertToGraph returns, the source and the target of
\* every edge are ids of nodes of the graph's node list, and the edge's wayId
\* is the id of a way element of the input.
C26_ReferentialIntegrity ==
    (output # Pending /\ ~IsThrown(output)) =>
        \A k \in 1..Len(output.edges) :
            /\ \E j \in 1..Len(output.nodes) : output.nodes[j].id = output.edges[k].source
            /\ \E j \in 1..Len(output.nodes) : output.nodes[j].id = output.edges[k].target
            /\ \E w \in WayElements(input.elements) : w.id = output.edges[k].wayId

\* a way that refers to a node the stream lacks, between two nodes it has
C26_Witness ==
    /\ output # Pending
    /\ HasElements(input)
    /\ input.elements = <<Node(1, 0, 0), Node(3, 4, 0), Way(102, <<2, 9, 1, 3>>, [oneway |-> "-1"])>>
    /\ Len(output.nodes) = 2
    /\ Len(output.edges) = 1
    /\ output.edges[1].wayId = 102


----------------------------------------------------------------------------
(* Claims about overlapping runs, checked under Spec.                       *)

\* the boxes a run has to fetch for its bounds
OwnTiles(run) ==
    IF NeedsTiling(run.bounds) THEN splitBounds(run.bounds, DefaultMaxDeg)
    ELSE <<run.bounds>>

\* the bodies the transport delivered in answer to the run's own requests
OwnBodies(run) == [k \in 1..Len(run.delivered) |-> run.delivered[k].data]

\* the graph of the data fetched for the run's own bounds
OwnGraph(run) ==
    convertToGraph(IF NeedsTiling(run.bounds) THEN mergeOsmData(OwnBodies(run))
                   ELSE OwnBodies(run)[1])

SuccessAnswers == {k \in 1..Len(responses) : responses[k].success}

\* C27: whatever the interleaving of two FETCH_OSM_DATA runs, a successful
\* response carries the graph built from the bodies delivered for the tiles
\* of its own request's bounds, all of them and nothing else, and the cache
\* holds the graph of the successful run that completed last.
C27_OverlappingRunsKeepTheirData ==
    /\ \A k \in SuccessAnswers :
           LET run == runs[responses[k].to]
           IN  /\ run.bounds = requests[responses[k].to].bounds
               /\ run.requested = OwnTiles(run)
               /\ Len(run.delivered) = Len(run.requested)
               /\ responses[k].data = OwnGraph(run)
    /\ IF SuccessAnswers = {} THEN IsNull(graphCache)
       ELSE graphCache = responses[MaxOf(SuccessAnswers)].data

\* run 1 is tiled and run 2 is not; run 2 completes first, run 1 after it
\* with another graph, which is the one the cache holds at the end
C27_Witness ==
    /\ Len(responses) = 2
    /\ SuccessAnswers = {1, 2}
    /\ responses[1].to = 2 /\ responses[2].to = 1
    /\ runs[1].tiled /\ ~runs[2].tiled
    /\ Len(runs[1].delivered) = 3
    /\ responses[1].data # responses[2].data
    /\ graphCache = responses[2].data


----------------------------------------------------------------------------
(* Claims about the graph of a tiled fetch, checked under SpecTiledGraph.   *)

\* the element stream of the tiles with every (type, id) at its first occurrence
FirstStream(results) == FirstOccurrences(Concatenated(results), 1)

\* the edges one way contributes on its own, given the node ids of the stream
OwnEmissions(way, ids) ==
    Concat([seg \in 1..(Len(way.nodes) - 1) |-> SegmentEmissions(1, way, seg, ids)])

\* C28: the graph built from the merged tiles has every node id once and has
\* exactly the edges that the first-occurrence stream gives, in its order:
\* a way returned by several tiles contributes its edges once, and two ways
\* with different ids over the same node pair each contribute their own.
C28_TileOverlapAddsNoEdge ==
    output # Pending =>
        LET stream == FirstStream(input)
            expected == Emissions(stream)
        IN  /\ ~IsThrown(output)
            /\ \A i, j \in 1..Len(output.nodes) :
                   output.nodes[i].id = output.nodes[j].id => i = j
            /\ {output.nodes[i].id : i \in 1..Len(output.nodes)} = NodeIds(Concatenated(input))
            /\ Len(output.edges) = Len(expected)
            /\ \A k \in 1..Len(expected) :
                   /\ output.edges[k].source = expected[k].source
                   /\ output.edges[k].target = expected[k].target
                   /\ output.edges[k].wayId = expected[k].wayId
            /\ \A w \in WayElements(Concatenated(input)) :
                   Cardinality({k \in 1..Len(output.edges) : output.edges[k].wayId = w.id})
                       = Len(OwnEmissions(w, NodeIds(Concatenated(input))))

\* both tiles return nodes 1 and 2 and way 100, the third returns them again
\* with way 106 over the same pair: two edges of way 100, one of way 106
C28_Witness ==
    /\ output # Pending
    /\ Len(input) = 3
    /\ input[1].elements = <<Node(1, 0, 0), Node(2, 0, 3), 
                           Way(100, <<1, 2>>, [highway |-> "residential", name |-> "Main St"])>>
    /\ input[2].elements = input[1].elements
    /\ Endpoints(output.edges) = <<(<<1, 2>>), <<2, 1>>, <<2, 1>>>>
    /\ output.edges[2].wayId = 100 /\ output.edges[3].wayId = 106


\* the runs whose request's bounds fail validation
RejectedRuns == {r \in DOMAIN runs : validateBounds(requests[r].bounds).error # NoError}

InvalidBoundsAnswered ==
    \A r \in RejectedRuns :
        /\ runs[r].requested = <<>>
        /\ \A q \in inflight : q.run # r
        /\ Cardinality(AnswersTo(r)) = 1
        /\ \A k \in AnswersTo(r) :
               responses[k] = Failure(r, validateBounds(requests[r].bounds).error)

InvalidBoundsLeaveCache ==
    (handled' = handled + 1 /\ validateBounds(requests'[handled'].bounds).error # NoError)
        => (graphCache' = graphCache /\ inflight' = inflight)

\* C29: a FETCH_OSM_DATA request whose bounds fail validation makes no
\* request to the data provider, is answered once, in the step that receives
\* it, with success false and the message of the rule that failed, and
\* leaves the graph cache as it was.
C29_InvalidBoundsFetchNothing ==
    /\ []InvalidBoundsAnswered
    /\ [][InvalidBoundsLeaveCache]_vars

\* a successful build, then a request whose north lies below its south: the
\* second is refused and the cache still holds the first graph
C29_Witness ==
    /\ Len(responses) = 2
    /\ responses[1].success /\ responses[1].to = 1
    /\ responses[2].to = 2
    /\ requests[2].bounds = Box(Num(10), Num(15), Num(5), Num(0))
    /\ ~responses[2].success
    /\ runs[2].requested = <<>>
    /\ graphCache = responses[1].data

----------------------------------------------------------------------------
(* The content panel (OSMGraphSelector).  In SpecPanel the variable output  *)
(* holds the panel: this.graphData, the disabled flags of its two buttons,  *)
(* the toast on show, the callbacks it is waiting for and the record of the *)
(* messages it sent and the answers to FETCH_OSM_DATA it received.  What    *)
(* the user typed and what the background script answered are inputs.       *)

MaxPanelEvents == 5

panel == output

\* parseFloat of a coordinate field
ParsedFields == {NaN, Num(0), Num(1)}

PanelCoords ==
    [north : ParsedFields, south : ParsedFields, east : ParsedFields, west : ParsedFields]

\* the options of the format selector
PanelFormats == {"json", "graphml", "csv", "tikz"}

PanelGraph(n) == [nodes |-> <<[id |-> n, lat |-> 0, lon |-> 0]>>, edges |-> <<>>]

PanelGraphs == {PanelGraph(1), PanelGraph(2)}

\* typeof chrome !== 'undefined' && chrome.runtime && chrome.runtime.sendMessage,
\* and whether sendMessage throws
ApiStates == {"available", "throws", "unavailable"}

\* what a sendMessage callback finds: chrome.runtime.lastError and response
CallbackArgs(lastError, defined, success, data) ==
    [lastError |-> lastError, defined |-> defined, success |-> success, data |-> data]

NoAnswer == CallbackArgs(TRUE, FALSE, FALSE, Null)

UndefinedAnswer == CallbackArgs(FALSE, FALSE, FALSE, Null)

FailureAnswer == CallbackArgs(FALSE, TRUE, FALSE, Null)

SuccessAnswer(data) == CallbackArgs(FALSE, TRUE, TRUE, data)

PanelGenerateAnswers ==
    {NoAnswer, UndefinedAnswer, FailureAnswer} \cup {SuccessAnswer(g) : g \in PanelGraphs}

PanelExportAnswers == {NoAnswer, UndefinedAnswer, FailureAnswer, SuccessAnswer(Null)}

\* response && response.success, reached only without lastError
Succeeded(a) == ~a.lastError /\ a.defined /\ a.success

FetchMessage(coords) == [type |-> "FETCH_OSM_DATA", bounds |-> coords]

ExportMessage(format, data) == [type |-> "EXPORT_GRAPH", format |-> format, data |-> data]

Sent(message) == [kind |-> "sent", message |-> message]

Answered(a) == [kind |-> "answered", answer |-> a]

\* constructor, then createSettingsPanel
NewPanel ==
    [graphData |-> Null,
     exportDisabled |-> TRUE,
     generateDisabled |-> FALSE,
     toast |-> "",
     awaitingGenerate |-> FALSE,
     awaitingExports |-> 0,
     log |-> <<>>]

\* the validation at the head of generateGraph
CoordsError(coords) ==
    IF \E f \in DOMAIN coords : coords[f].t = "nan"
        THEN "Error: All coordinates must be valid numbers"
    ELSE IF NumLe(coords.north, coords.south)
        THEN "Error: North must be greater than South"
    ELSE IF NumLe(coords.east, coords.west)
        THEN "Error: East must be greater than West"
    ELSE NoError

generateGraph(p, coords, api) ==
    IF CoordsError(coords) # NoError
        THEN [p EXCEPT !.toast = CoordsError(coords)]
    ELSE IF api = "available"
        THEN [p EXCEPT !.toast = "Generating graph...",
                       !.generateDisabled = TRUE,
                       !.awaitingGenerate = TRUE,
                       !.log = Append(@, Sent(FetchMessage(coords)))]
    ELSE IF api = "throws"
        THEN [p EXCEPT !.toast = "Error: Could not communicate with extension",
                       !.generateDisabled = FALSE]
    ELSE [p EXCEPT !.toast = "Error: Extension context not available",
                   !.generateDisabled = FALSE]

\* a variant whose error branch forgets the graph
OnGenerateAnswerClearing(p, a, previewThrows) ==
    LET q == [p EXCEPT !.generateDisabled = FALSE,
                       !.awaitingGenerate = FALSE,
                       !.log = Append(@, Answered(a))]
    IN  IF Succeeded(a)
            THEN [q EXCEPT !.graphData = a.data,
                           !.toast = "Graph generated successfully!",
                           !.exportDisabled = IF previewThrows THEN @ ELSE FALSE]
        ELSE [q EXCEPT !.graphData = Null, !.toast = "Error generating graph"]

\* the callback generateGraph passes to sendMessage
OnGenerateAnswer(p, a, previewThrows) ==
    LET q == [p EXCEPT !.generateDisabled = FALSE,
                       !.awaitingGenerate = FALSE,
                       !.log = Append(@, Answered(a))]
    IN  IF a.lastError
            THEN [q EXCEPT !.toast = "Extension error"]
        ELSE IF Succeeded(a)
            THEN [q EXCEPT !.graphData = a.data,
                           !.toast = "Graph generated successfully!",
                           !.exportDisabled = IF previewThrows THEN @ ELSE FALSE]
        ELSE [q EXCEPT !.toast = "Error generating graph"]

exportGraph(p, format, api) ==
    IF p.graphData = Null
        THEN [p EXCEPT !.toast = "Please generate a graph first"]
    ELSE IF api = "available"
        THEN [p EXCEPT !.awaitingExports = @ + 1,
                       !.log = Append(@, Sent(ExportMessage(format, p.graphData)))]
    ELSE IF api = "throws"
        THEN [p EXCEPT !.toast = "Error: Could not communicate with extension"]
    ELSE [p EXCEPT !.toast = "Error: Extension context not available"]

\* the callback exportGraph passes to sendMessage
OnExportAnswer(p, a) ==
    LET q == [p EXCEPT !.awaitingExports = @ - 1]
    IN  IF a.lastError
            THEN [q EXCEPT !.toast = "Extension error"]
        ELSE IF Succeeded(a)
            THEN [q EXCEPT !.toast = "Graph exported successfully!"]
        ELSE [q EXCEPT !.toast = "Export failed"]

InitPanel ==
    /\ input = Null
    /\ output = NewPanel
    /\ BackgroundIdle

\* a click on #generateGraph; a disabled button receives none
ClickGenerate ==
    /\ ~panel.generateDisabled
    /\ Len(panel.log) < MaxPanelEvents
    /\ \E coords \in PanelCoords, api \in ApiStates :
           output' = generateGraph(panel, coords, api)
    /\ UNCHANGED <<input, bgvars>>

AnswerGenerate ==
    /\ panel.awaitingGenerate
    /\ \E a \in PanelGenerateAnswers, previewThrows \in BOOLEAN :
           output' = OnGenerateAnswer(panel, a, previewThrows)
    /\ UNCHANGED <<input, bgvars>>

\* a click on #exportGraph
ClickExport ==
    /\ ~panel.exportDisabled
    /\ Len(panel.log) < MaxPanelEvents
    /\ \E format \in PanelFormats, api \in ApiStates :
           output' = exportGraph(panel, format, api)
    /\ UNCHANGED <<input, bgvars>>

AnswerExport ==
    /\ panel.awaitingExports > 0
    /\ \E a \in PanelExportAnswers : output' = OnExportAnswer(panel, a)
    /\ UNCHANGED <<input, bgvars>>

NextPanel == ClickGenerate \/ AnswerGenerate \/ ClickExport \/ AnswerExport

SpecPanel == InitPanel /\ [][NextPanel]_vars

IsExportSent(e) == e.kind = "sent" /\ e.message.type = "EXPORT_GRAPH"

IsGenerated(e) == e.kind = "answered" /\ Succeeded(e.answer)

\* the successful generations recorded before entry k
GeneratedBefore(log, k) == {j \in 1..(k - 1) : IsGenerated(log[j])}

LatestGenerated(log, k) ==
    log[CHOOSE j \in GeneratedBefore(log, k) : \A i \in GeneratedBefore(log, k) : i <= j].answer.data

ExportsCarryLatestGraph ==
    \A k \in 1..Len(panel.log) :
        IsExportSent(panel.log[k]) =>
            /\ GeneratedBefore(panel.log, k) # {}
            /\ panel.log[k].message.data = LatestGenerated(panel.log, k)

\* this.graphData changes only in the step that records a successful answer
FailedGenerationKeepsGraph ==
    panel'.graphData # panel.graphData =>
        /\ Len(panel'.log) = Len(panel.log) + 1
        /\ IsGenerated(panel'.log[Len(panel'.log)])
        /\ panel'.graphData = panel'.log[Len(panel'.log)].answer.data

ExportStaysEnabled == ~panel.exportDisabled => ~panel'.exportDisabled

\* C30: the content panel sends an EXPORT_GRAPH message only after a
\* generation has succeeded in it, and the message carries the graph of the
\* most recent successful generation; a generation that fails afterwards
\* leaves that graph in place, and the export button, once enabled, is never
\* disabled again.
C30_ExportCarriesLatestGraph ==
    /\ []ExportsCarryLatestGraph
    /\ [][FailedGenerationKeepsGraph /\ ExportStaysEnabled]_vars

\* a generation succeeds, a second one fails, and the export that follows
\* carries the graph of the first
C30_Witness ==
    /\ Len(panel.log) = 5
    /\ panel.log[2] = Answered(SuccessAnswer(PanelGraph(1)))
    /\ panel.log[3].kind = "sent" /\ panel.log[3].message.type = "FETCH_OSM_DATA"
    /\ panel.log[4] = Answered(FailureAnswer)
    /\ panel.log[5] = Sent(ExportMessage("tikz", PanelGraph(1)))
    /\ ~panel.exportDisabled

====
